---- MODULE Spec2Model ----
(***************************************************************************)
(* Model of the retro-game-organiser: the filename normalizer              *)
(* (src/src/normalizer.py), the system registry (src/src/systems.py), the  *)
(* consolidation engine (src/src/consolidator.py) and the thumbnail        *)
(* matcher (src/src/thumbnails.py).                                        *)
(*                                                                         *)
(* File names, system keys and folder names are strings; the operators     *)
(* below work on them character by character, as the regular expressions   *)
(* and str methods of the Python source do.                                *)
(***************************************************************************)
EXTENDS Integers, Sequences, FiniteSets, TLC

(***************************************************************************)
(* Python str primitives                                                   *)
(***************************************************************************)

\* s[i] (1-based) as a one-character string; "" when i is out of range.
Ch(s, i) == IF i >= 1 /\ i <= Len(s) THEN SubSeq(s, i, i) ELSE ""

\* s[i:] (1-based, inclusive).
From(s, i) == SubSeq(s, i, Len(s))

Digits == {"0", "1", "2", "3", "4", "5", "6", "7", "8", "9"}

\* The characters the regex class \s and str.strip() treat as whitespace.
Whitespace == {" ", "\t"}

LowerLetters == {"a", "b", "c", "d", "e", "f", "g", "h", "i", "j", "k", "l", "m",
                 "n", "o", "p", "q", "r", "s", "t", "u", "v", "w", "x", "y", "z"}

\* str.lower() on one character.
LowerCh(c) ==
  CASE c = "A" -> "a" [] c = "B" -> "b" [] c = "C" -> "c" [] c = "D" -> "d"
    [] c = "E" -> "e" [] c = "F" -> "f" [] c = "G" -> "g" [] c = "H" -> "h"
    [] c = "I" -> "i" [] c = "J" -> "j" [] c = "K" -> "k" [] c = "L" -> "l"
    [] c = "M" -> "m" [] c = "N" -> "n" [] c = "O" -> "o" [] c = "P" -> "p"
    [] c = "Q" -> "q" [] c = "R" -> "r" [] c = "S" -> "s" [] c = "T" -> "t"
    [] c = "U" -> "u" [] c = "V" -> "v" [] c = "W" -> "w" [] c = "X" -> "x"
    [] c = "Y" -> "y" [] c = "Z" -> "z" [] OTHER -> c

RECURSIVE LowerFrom(_, _)
LowerFrom(s, i) ==
  IF i > Len(s) THEN "" ELSE LowerCh(Ch(s, i)) \o LowerFrom(s, i + 1)

\* str.lower()
Lower(s) == LowerFrom(s, 1)

\* The position of the first c in s at or after position i; 0 when there is none.
IndexFrom(s, c, i) ==
  IF \E j \in i..Len(s) : Ch(s, j) = c
  THEN CHOOSE j \in i..Len(s) :
         Ch(s, j) = c /\ \A k \in i..(j - 1) : Ch(s, k) # c
  ELSE 0

\* str.rfind(c), 1-based; 0 when there is none.
RFind(s, c) ==
  IF \E j \in 1..Len(s) : Ch(s, j) = c
  THEN CHOOSE j \in 1..Len(s) :
         Ch(s, j) = c /\ \A k \in (j + 1)..Len(s) : Ch(s, k) # c
  ELSE 0

\* needle in s (substring test).
Contains(s, needle) ==
  \E i \in 1..(Len(s) - Len(needle) + 1) :
    SubSeq(s, i, i + Len(needle) - 1) = needle

\* s.startswith(p)
StartsWith(s, p) == Len(p) <= Len(s) /\ SubSeq(s, 1, Len(p)) = p

\* The position of the first non-whitespace character at or after i
\* (Len(s) + 1 when the rest is whitespace): where a greedy \s* ends.
SkipSpaces(s, i) ==
  CHOOSE k \in i..(Len(s) + 1) :
    /\ \A m \in i..(k - 1) : Ch(s, m) \in Whitespace
    /\ Ch(s, k) \notin Whitespace

\* str.strip()
Strip(s) ==
  LET a == SkipSpaces(s, 1)
  IN  IF a > Len(s) THEN ""
      ELSE LET b == CHOOSE k \in a..Len(s) :
                      /\ Ch(s, k) \notin Whitespace
                      /\ \A m \in (k + 1)..Len(s) : Ch(s, m) \in Whitespace
           IN  SubSeq(s, a, b)

RECURSIVE CollapseFrom(_, _)
CollapseFrom(s, i) ==
  IF i > Len(s) THEN ""
  ELSE IF Ch(s, i) \in Whitespace
       THEN " " \o CollapseFrom(s, SkipSpaces(s, i))
       ELSE Ch(s, i) \o CollapseFrom(s, i + 1)

\* re.sub(r'\s+', ' ', s)
CollapseSpaces(s) == CollapseFrom(s, 1)

RECURSIVE RemoveGroupsFrom(_, _, _, _)
RemoveGroupsFrom(s, open, close, i) ==
  IF i > Len(s) THEN ""
  ELSE LET k == SkipSpaces(s, i)
           j == IF Ch(s, k) = open THEN IndexFrom(s, close, k + 1) ELSE 0
       IN  IF j > 0
           THEN RemoveGroupsFrom(s, open, close, j + 1)
           ELSE Ch(s, i) \o RemoveGroupsFrom(s, open, close, i + 1)

\* re.sub(r'\s*\([^)]*\)', '', s) for open = "(", close = ")", and
\* re.sub(r'\s*\[[^\]]*\]', '', s) for open = "[", close = "]".
RemoveGroups(s, open, close) == RemoveGroupsFrom(s, open, close, 1)

RECURSIVE ParenGroupsFrom(_, _)
ParenGroupsFrom(s, i) ==
  IF i > Len(s) THEN << >>
  ELSE LET j == IF Ch(s, i) = "(" THEN IndexFrom(s, ")", i + 1) ELSE 0
       IN  IF j > i + 1
           THEN <<SubSeq(s, i + 1, j - 1)>> \o ParenGroupsFrom(s, j + 1)
           ELSE ParenGroupsFrom(s, i + 1)

\* re.compile(r'\(([^)]+)\)').findall(s): the inner texts, in encounter order.
ParenGroups(s) == ParenGroupsFrom(s, 1)

RECURSIVE Join(_, _)
\* sep.join(parts)
Join(parts, sep) ==
  IF Len(parts) = 0 THEN ""
  ELSE IF Len(parts) = 1 THEN parts[1]
  ELSE parts[1] \o sep \o Join(Tail(parts), sep)

\* pathlib.PurePath(name).suffix for a bare file name.
Suffix(name) ==
  LET i == RFind(name, ".")
  IN  IF 1 < i /\ i < Len(name) THEN From(name, i) ELSE ""

\* pathlib.PurePath(name).stem for a bare file name.
Stem(name) ==
  LET i == RFind(name, ".")
  IN  IF 1 < i /\ i < Len(name) THEN SubSeq(name, 1, i - 1) ELSE name

(***************************************************************************)
(* Normalizer (src/src/normalizer.py)                                      *)
(***************************************************************************)

\* Python's None and a present value, for the optional fields of GameInfo.
None == [has |-> FALSE, val |-> ""]
Some(v) == [has |-> TRUE, val |-> v]

\* Python truthiness of an optional string: not None and not empty.
Truthy(o) == o.has /\ o.val # ""

\* REGION_PATTERNS, lowercased: every pattern is a literal, matched over the
\* whole text with re.IGNORECASE.
REGION_PATTERNS ==
  {"usa", "u", "us", "japan", "j", "jp", "jpn", "europe", "e", "eu", "eur",
   "world", "w", "korea", "k", "kr", "china", "c", "cn", "france", "f", "fr",
   "germany", "g", "de", "spain", "s", "es", "italy", "i", "it",
   "australia", "a", "au", "brazil", "b", "br", "asia", "as",
   "en", "ja", "ko", "zh"}

\* re.match(f'^{pattern}$', match_content, re.IGNORECASE) for some pattern.
IsRegion(content) == Lower(content) \in REGION_PATTERNS

RECURSIVE SelectSeqBy(_, _, _)
\* The elements of seq whose region test equals want, in order.
SelectSeqBy(seq, want, i) ==
  IF i > Len(seq) THEN << >>
  ELSE IF IsRegion(seq[i]) = want
       THEN <<seq[i]>> \o SelectSeqBy(seq, want, i + 1)
       ELSE SelectSeqBy(seq, want, i + 1)

RECURSIVE StripAll(_, _)
StripAll(seq, i) ==
  IF i > Len(seq) THEN << >> ELSE <<Strip(seq[i])>> \o StripAll(seq, i + 1)

\* An extraction that files the region tokens after the first under versions.
extract_parenthetical_info_later_regions_kept(name) ==
  LET contents == StripAll(ParenGroups(name), 1)
      regions  == SelectSeqBy(contents, TRUE, 1)
  IN  [regions  |-> regions,
       versions |-> SelectSeqBy(contents, FALSE, 1)
                      \o (IF Len(regions) > 1 THEN Tail(regions) ELSE << >>)]

\* _extract_parenthetical_info: every parenthesised text, stripped, goes to
\* regions when it is a region token and to versions otherwise (a text that
\* matches no VERSION_PATTERNS entry is appended to versions all the same,
\* by the catch-all at the end of the loop).
extract_parenthetical_info(name) ==
  LET contents == StripAll(ParenGroups(name), 1)
  IN  [regions  |-> SelectSeqBy(contents, TRUE, 1),
       versions |-> SelectSeqBy(contents, FALSE, 1)]

\* A prefix pattern of four digits: re.sub(r'^\d{4}\s+', '', name).
StripPrefix_four_digits(name) ==
  IF /\ Len(name) >= 5
     /\ \A i \in 1..4 : Ch(name, i) \in Digits
     /\ Ch(name, 5) \in Whitespace
  THEN From(name, SkipSpaces(name, 5))
  ELSE name

\* A prefix pattern that never matches: the name is kept as it is.
StripPrefix_never(name) == name

\* re.sub(r'^\d{3}\s+', '', name)
StripPrefix(name) ==
  IF /\ Len(name) >= 4
     /\ \A i \in 1..3 : Ch(name, i) \in Digits
     /\ Ch(name, 4) \in Whitespace
  THEN From(name, SkipSpaces(name, 4))
  ELSE name

\* The three re.sub calls that build base_name from clean_name.
BaseName(clean_name) ==
  Strip(CollapseSpaces(RemoveGroups(RemoveGroups(clean_name, "(", ")"), "[", "]")))

\* parse_game_filename
parse_game_filename(filename) ==
  LET name       == Stem(filename)
      extension  == Suffix(filename)
      clean_name == StripPrefix(name)
      info       == extract_parenthetical_info(clean_name)
  IN  [base_name         |-> BaseName(clean_name),
       region            |-> IF Len(info.regions) > 0
                             THEN Some(info.regions[1]) ELSE None,
       version           |-> IF Len(info.versions) > 0
                             THEN Some(Join(info.versions, " - ")) ELSE None,
       original_filename |-> filename,
       clean_filename    |-> clean_name \o extension]

\* A dedup key that leaves the region out.
dedup_key_no_region(g) ==
  Join(<<Lower(g.base_name)>>
         \o (IF Truthy(g.version) THEN <<Lower(g.version.val)>> ELSE << >>),
       "|")

\* GameInfo.dedup_key
dedup_key(g) ==
  Join(<<Lower(g.base_name)>>
         \o (IF Truthy(g.region) THEN <<Lower(g.region.val)>> ELSE << >>)
         \o (IF Truthy(g.version) THEN <<Lower(g.version.val)>> ELSE << >>),
       "|")

\* GameInfo.similarity_key
similarity_key(g) == Lower(g.base_name)

\* get_dedup_key
get_dedup_key(filename) == dedup_key(parse_game_filename(filename))

\* get_similarity_key
get_similarity_key(filename) == similarity_key(parse_game_filename(filename))

(***************************************************************************)
(* System registry (src/src/systems.py)                                    *)
(***************************************************************************)

\* SYSTEMS: the entries of the table that the system keys of this model
\* resolve to or compete with, in the order of the source (a dict iterates in
\* insertion order, and sorted() is stable): lowercase keys first, then the
\* uppercase variants.
SYSTEMS ==
  << [key |-> "gb",           name |-> "Nintendo Game Boy"],
     [key |-> "gba",          name |-> "Nintendo Game Boy Advance"],
     [key |-> "genesis",      name |-> "Sega Genesis/Mega Drive"],
     [key |-> "mame",         name |-> "MAME (arcade)"],
     [key |-> "n64",          name |-> "Nintendo 64"],
     [key |-> "n64dd",        name |-> "Nintendo 64DD"],
     [key |-> "nes",          name |-> "Nintendo Entertainment System"],
     [key |-> "psp",          name |-> "Sony PlayStation Portable"],
     [key |-> "psx",          name |-> "Sony PlayStation"],
     [key |-> "ps1",          name |-> "Sony PlayStation"],
     [key |-> "snes",         name |-> "Super Nintendo Entertainment System"],
     [key |-> "snes-msu1",    name |-> "SNES with MSU-1 enhancement"],
     [key |-> "x1",           name |-> "Sharp X1"],
     [key |-> "DC",           name |-> "Sega Dreamcast"],
     [key |-> "FC",           name |-> "Nintendo Famicom / NES"],
     [key |-> "GB",           name |-> "Nintendo Game Boy"],
     [key |-> "GBA",          name |-> "Nintendo Game Boy Advance"],
     [key |-> "MAME",         name |-> "MAME (arcade)"],
     [key |-> "MAME2003PLUS", name |-> "MAME 2003 Plus (arcade)"],
     [key |-> "N64",          name |-> "Nintendo 64"],
     [key |-> "PS",           name |-> "Sony PlayStation"],
     [key |-> "PSP",          name |-> "Sony PlayStation Portable"] >>

\* normalize_system_key
normalize_system_key(key) == Lower(key)

RECURSIVE RemoveChars(_, _, _)
\* s with every character of the set chars removed (chained str.replace(c, "")).
RemoveChars(s, chars, i) ==
  IF i > Len(s) THEN ""
  ELSE (IF Ch(s, i) \in chars THEN "" ELSE Ch(s, i)) \o RemoveChars(s, chars, i + 1)

\* The contains test of get_system_info for the table entry i.
ContainsMatch(system_key, i) ==
  LET lower_key        == normalize_system_key(system_key)
      normalized_input == RemoveChars(lower_key, {" ", "-", "_"}, 1)
      key_lower        == Lower(SYSTEMS[i].key)
  IN  /\ Len(SYSTEMS[i].key) > 2
      /\ Contains(lower_key, key_lower) \/ Contains(normalized_input, key_lower)

\* The keys tried in the order of the table, not sorted by length.
SortedBefore_table_order(i, j) == i < j

\* i comes before j in sorted(SYSTEMS.keys(), key=len, reverse=True).
SortedBefore(i, j) ==
  \/ Len(SYSTEMS[i].key) > Len(SYSTEMS[j].key)
  \/ Len(SYSTEMS[i].key) = Len(SYSTEMS[j].key) /\ i < j

\* get_system_info: None, or Some of the table entry found.
get_system_info(system_key) ==
  LET idx   == 1..Len(SYSTEMS)
      exact == {i \in idx : SYSTEMS[i].key = system_key}
      nocase == {i \in idx : normalize_system_key(SYSTEMS[i].key)
                               = normalize_system_key(system_key)}
      cont  == {i \in idx : ContainsMatch(system_key, i)}
  IN  IF exact # {}
      THEN [has |-> TRUE, val |-> SYSTEMS[CHOOSE i \in exact : TRUE]]
      ELSE IF nocase # {}
      THEN [has |-> TRUE,
            val |-> SYSTEMS[CHOOSE i \in nocase : \A j \in nocase : i <= j]]
      ELSE IF cont # {}
      THEN [has |-> TRUE,
            val |-> SYSTEMS[CHOOSE i \in cont :
                              \A j \in cont \ {i} : SortedBefore(i, j)]]
      ELSE [has |-> FALSE, val |-> [key |-> "", name |-> ""]]

\* The system keys this model looks up: the folder names of the sources, and
\* the keys _scan_existing_output reads off the folders of the output.
SourceSystemKeys ==
  {"psp", "PSP", "Psp", "Sony PSP", "gb", "GB", "dc", "DC", "FC", "genesis",
   "MAME2003PLUS", "mame2003plus", "Nintendo - N64", "n64dd", "snes",
   "snes-msu1", "snes_msu1", "x1", "PS", "unknown_xyz", "Foo", "foo",
   "my-roms", "dc_games", "mame2003plus-extra"}

\* get_system_info is a pure function of its argument: its answers for the
\* keys above are computed once and looked up afterwards.
SystemInfoTable == [k \in SourceSystemKeys |-> get_system_info(k)]

\* A call of get_system_info(system_key).
system_info(system_key) ==
  IF system_key \in DOMAIN SystemInfoTable
  THEN SystemInfoTable[system_key]
  ELSE get_system_info(system_key)

\* A folder name whose fallback is the lowercased key.
get_output_folder_name_lowered(system_key) ==
  LET info == system_info(system_key)
  IN  IF info.has THEN info.val.key \o "-" \o info.val.name ELSE Lower(system_key)

\* get_output_folder_name
get_output_folder_name(system_key) ==
  LET info == system_info(system_key)
  IN  IF info.has THEN info.val.key \o "-" \o info.val.name ELSE system_key

\* is_known_system
is_known_system(system_key) == system_info(system_key).has

\* A normalisation that keeps the case of the registry's key.
normalize_system_for_dedup_keep_case(system_key) ==
  LET info == system_info(system_key)
  IN  IF info.has THEN info.val.key ELSE Lower(system_key)

\* Consolidator._normalize_system_for_dedup
normalize_system_for_dedup(system_key) ==
  LET info == system_info(system_key)
  IN  IF info.has THEN Lower(info.val.key) ELSE Lower(system_key)

(***************************************************************************)
(* Thumbnail matcher (src/src/thumbnails.py)                               *)
(***************************************************************************)

\* normalize_for_matching: re.sub(r"[^a-z0-9]", "", name.lower())
normalize_for_matching(name) ==
  LET low == Lower(name)
      drop == {Ch(low, i) : i \in 1..Len(low)} \ (LowerLetters \cup Digits)
  IN  RemoveChars(low, drop, 1)

\* extract_base_name
extract_base_name(name) ==
  Strip(RemoveGroups(RemoveGroups(name, "(", ")"), "[", "]"))

\* The keys of the lookup dicts match_thumbnail builds from the listing.
\* An exact lookup keyed by the base name.
exact_key_base(f) == Lower(extract_base_name(f))

\* exact_lookup: f.lower()
exact_key(f) == Lower(f)

\* base_lookup: extract_base_name(f).lower()
base_key(f) == Lower(extract_base_name(f))

\* normalized_lookup: normalize_for_matching(f)
normalized_key(f) == normalize_for_matching(f)

\* base_normalized_lookup: normalize_for_matching(extract_base_name(f))
base_normalized_key(f) == normalize_for_matching(extract_base_name(f))

\* The keys of a dict comprehension {Key(f): f for f in files}, file by file.
KeysOf(files, lookup) ==
  [i \in 1..Len(files) |->
     CASE lookup = "exact"           -> exact_key(files[i])
       [] lookup = "base"            -> base_key(files[i])
       [] lookup = "normalized"      -> normalized_key(files[i])
       [] lookup = "base_normalized" -> base_normalized_key(files[i])]

\* k in lookup
HasKey(files, lookup, k) ==
  \E i \in 1..Len(files) : KeysOf(files, lookup)[i] = k

\* lookup[k]: a later file replaces an earlier one with the same key, so the
\* dict holds the last file of the list with that key.
LastWith(files, lookup, k) ==
  LET keys == KeysOf(files, lookup)
  IN  files[CHOOSE i \in 1..Len(files) :
              keys[i] = k /\ \A j \in (i + 1)..Len(files) : keys[j] # k]

\* The first file of the list that passes a test (a for loop that returns);
\* passes[i] tells whether files[i] does.
FirstWith(files, passes) ==
  files[CHOOSE i \in 1..Len(files) :
          passes[i] /\ \A j \in 1..(i - 1) : ~passes[j]]

NoMatch == [tier |-> 0, has |-> FALSE, val |-> ""]
Matched(tier, file) == [tier |-> tier, has |-> TRUE, val |-> file]

\* match_thumbnail, with the number of the priority that returned (0: None).
match_thumbnail_at(game_name, available_files) ==
  LET game_name_lower      == Lower(game_name)
      game_base            == extract_base_name(game_name)
      game_base_lower      == Lower(game_base)
      game_normalized      == normalize_for_matching(game_name)
      game_base_normalized == normalize_for_matching(game_base)
      partial   == [i \in 1..Len(available_files) |->
                      LET avail_base_normalized ==
                            normalize_for_matching(extract_base_name(available_files[i]))
                      IN  \/ StartsWith(avail_base_normalized, game_base_normalized)
                          \/ StartsWith(game_base_normalized, avail_base_normalized)]
      base_same == [i \in 1..Len(available_files) |->
                      Lower(extract_base_name(available_files[i])) = game_base_lower]
  IN  IF Len(available_files) = 0 THEN NoMatch
      ELSE IF HasKey(available_files, "exact", game_name_lower)
      THEN Matched(1, LastWith(available_files, "exact", game_name_lower))
      ELSE IF HasKey(available_files, "base", game_base_lower)
      THEN Matched(2, LastWith(available_files, "base", game_base_lower))
      ELSE IF HasKey(available_files, "normalized", game_normalized)
      THEN Matched(3, LastWith(available_files, "normalized", game_normalized))
      ELSE IF HasKey(available_files, "normalized", game_base_normalized)
      THEN Matched(4, LastWith(available_files, "normalized", game_base_normalized))
      ELSE IF HasKey(available_files, "base_normalized", game_base_normalized)
      THEN Matched(5, LastWith(available_files, "base_normalized",
                               game_base_normalized))
      ELSE IF \E i \in 1..Len(available_files) : partial[i]
      THEN Matched(6, FirstWith(available_files, partial))
      ELSE IF \E i \in 1..Len(available_files) : base_same[i]
      THEN Matched(7, FirstWith(available_files, base_same))
      ELSE NoMatch

\* match_thumbnail: the file name returned, or None.
match_thumbnail(game_name, available_files) ==
  LET m == match_thumbnail_at(game_name, available_files)
  IN  [has |-> m.has, val |-> m.val]

(***************************************************************************)
(* Bounds and inputs                                                       *)
(***************************************************************************)

\* The most ROM files one scan of the source directories yields.
MaxFiles == 2

\* The most invocations of consolidate() against one output directory.
MaxRuns == 2

\* The most copies that fail (mkdir or copy2 raises) in one behaviour.
MaxCopyErrors == 1

\* The (system folder, file name) pairs a scan can yield: two spellings of
\* one system, two releases of one title, a prefixed and re-packed copy, a
\* system whose key holds a hyphen, one whose display name holds a slash, and
\* an unknown system with a doubly prefixed file.
RomPool ==
  { [system_key |-> "psp",         filename |-> "Game (USA).bin"],
    [system_key |-> "PSP",         filename |-> "001 Game (USA).zip"],
    [system_key |-> "psp",         filename |-> "Game (Europe).bin"],
    [system_key |-> "snes-msu1",   filename |-> "Game (USA).bin"],
    [system_key |-> "genesis",     filename |-> "Game (USA).bin"],
    [system_key |-> "unknown_xyz", filename |-> "001 002 Game.zip"] }

\* The options consolidate_roms builds for a run: the default, a dry run,
\* and a run with a system allow-list. It never sets overwrite.
OptionChoices ==
  { [dry_run |-> FALSE, overwrite |-> FALSE, systems_filter |-> [has |-> FALSE, val |-> {}]],
    [dry_run |-> TRUE,  overwrite |-> FALSE, systems_filter |-> [has |-> FALSE, val |-> {}]],
    [dry_run |-> FALSE, overwrite |-> FALSE, systems_filter |-> [has |-> TRUE, val |-> {"psp"}]] }

\* The output directory before the first run: absent or empty. What a later
\* run finds there is what the earlier runs copied.
InitialOutputs == { {} }

\* The most 3-digit prefixes stacked at the start of a file name.
MaxPrefixes == 2

\* The most parenthesised groups after the title of a file name.
MaxGroups == 2

\* The 3-digit prefixes of ROM sets: one followed by a space, one by two.
PrefixPool == {"001 ", "007  "}

\* Titles: a word, a title made of four digits, a title that starts with
\* four digits and a space, and none.
TitlePool == {"Game", "1942", "2048 Game", ""}

\* Groups that name a region of REGION_PATTERNS, in two spellings of one.
RegionGroupPool == {" (USA)", " (usa)", " (Europe)"}

\* Groups after the title: the regions and a revision.
GroupPool == RegionGroupPool \cup {" (Rev 1)"}

\* Extensions of a file as scanned (none, or one) and as re-packed.
ExtPool == {"", ".bin"}
RepackedExtPool == {".bin", ".zip"}

\* The most system keys looked up in one behaviour.
MaxLookups == 2

\* The most names in the listing of a remote thumbnail directory.
MaxAvailable == 2

\* The lookup names (ROM base names) handed to match_thumbnail.
GameNamePool ==
  {"Super Mario Bros (Europe)", "super mario bros (usa)", "Super Mario",
   "Kirbys Adventure (USA)", "Kirbys Adventure"}

\* The file names (without .png) a remote listing can hold.
RemoteNamePool ==
  {"Super Mario Bros (USA)", "Super Mario Bros (Europe)",
   "Super Mario Bros 3 (USA)", "Kirby's Adventure",
   "Kirby's Adventure (Europe)", "(USA)"}

\* The most system folders in the directory the downloader scans.
MaxFolders == 2

\* The most concurrent downloads (ThumbnailOptions.max_workers).
MaxWorkers == 2

\* The folders a consolidated directory can hold, in the order sorted()
\* gives them, each with its files in sorted order: two folders whose names
\* yield the system key "snes", a folder with one game in two packings, a
\* folder with a hidden file, the images folder and a folder of an unknown
\* system.
FolderPool ==
  << [name |-> "gb-Nintendo Game Boy",
       files |-> <<"Game (USA).gb", "Game (USA).zip">>],
     [name |-> "images", files |-> << >>],
     [name |-> "psp-Sony PlayStation Portable",
      files |-> <<".DS_Store", "Game (Europe).bin">>],
     [name |-> "snes-Super Nintendo Entertainment System",
      files |-> <<"Game (USA).sfc">>],
     [name |-> "snes-msu1-SNES with MSU-1 enhancement",
      files |-> <<"Zelda.sfc">>],
     [name |-> "unknown_xyz", files |-> <<"Game.zip">>] >>

\* The options download_thumbnails builds: box art with each number of
\* workers, and with one worker the other types, a dry run and a run with a
\* system allow-list. It never sets overwrite.
ThumbnailOptionChoices ==
  LET none     == [has |-> FALSE, val |-> {}]
      only_psp == [has |-> TRUE, val |-> {"psp"}]
      Opt(d, t, f, w) ==
        [dry_run |-> d, thumbnail_type |-> t, overwrite |-> FALSE,
         systems_filter |-> f, max_workers |-> w]
  IN  { Opt(FALSE, "boxart", none, w) : w \in 1..MaxWorkers }
        \cup { Opt(FALSE, "snap", none, 1),
               Opt(FALSE, "title", none, 1),
               Opt(TRUE, "boxart", none, 1),
               Opt(FALSE, "boxart", only_psp, 1) }

\* The artwork already on disk before the run: none, or one box art.
InitialImages ==
  { {}, {"gb-Nintendo Game Boy/images/boxarts/Game (USA).png"} }

\* What the listing service can answer to a request: a tree with artwork, a
\* tree without any, HTTP 404, or any other failure (HTTP error, timeout).
ListingResponses ==
  { [kind |-> "ok", tree |-> <<"Game (USA).png", "Other.png", "README.md">>],
    [kind |-> "ok", tree |-> <<"README.md">>],
    [kind |-> "absent", tree |-> << >>],
    [kind |-> "failure", tree |-> << >>] }

\* How a download can end: the file is written, the resource is not there
\* (HTTP 404), anything else is raised before the file is opened, or the
\* read of the response fails after the file was created.
DownloadOutcomes == {"ok", "absent", "failure", "partial"}

\* All sequences over S of length at most n.
RECURSIVE SeqsUpTo(_, _)
SeqsUpTo(S, n) ==
  IF n = 0 THEN { << >> }
  ELSE LET shorter == SeqsUpTo(S, n - 1)
       IN  shorter \cup { Append(q, e) : q \in shorter, e \in S }

(***************************************************************************)
(* State                                                                   *)
(***************************************************************************)

VARIABLES
  output,     \* the files under output_dir, each the tuple of its path components
  roms,       \* what scan_multiple_directories yields, in order (RomFile records)
  options,    \* Consolidator.options of the current run
  run,        \* the number of the current invocation of consolidate()
  pc,         \* where consolidate() stands: "start", "loop" or "done"
  pos,        \* the index in roms of the next file of the for loop
  seen,       \* Consolidator._seen
  result,     \* Consolidator.result
  events,     \* what each loop iteration of the current run decided, in order
  failures,   \* the number of copies (mkdir, copy2) that raised so far
  exit_code,  \* what cmd_consolidate returned for the current run, once it has
  fileA,      \* normalizer: a file name, as its parts and its extension
  fileB,      \* normalizer: the file name derived from fileA
  relation,   \* normalizer: how fileB was derived from fileA
  parsed,     \* normalizer: the GameInfo of fileA and fileB once parsed
  lookups,    \* registry: the system keys looked up so far, with the answers
  game_name,        \* matcher: the lookup name
  available_files,  \* matcher: the remote listing
  matched,          \* matcher: what match_thumbnail returned
  tdir,             \* downloader: the system folders of rom_dir, sorted, with their files
  timages,          \* downloader: the artwork files on disk, each by its path
  toptions,         \* downloader: ThumbnailDownloader.options
  tpc,              \* downloader: where download_for_directory stands
  tfolder,          \* downloader: the index in tdir of the current system folder
  tfile,            \* downloader: the index of the next file of that folder
  tcache,           \* downloader: ThumbnailCache (_cache and _errors)
  tfetches,         \* downloader: the requests sent to the listing service, per cache key
  tresult,          \* downloader: ThumbnailDownloader.result
  download_tasks,   \* downloader: the list download_tasks
  futures,          \* downloader: the state of the future of each task
  lock,             \* downloader: the holder of ThumbnailDownloader._lock
  taken             \* downloader: the future the as_completed loop is handling

consVars  == <<output, roms, options, run, pc, pos, seen, result, events, failures,
               exit_code>>
parseVars == <<fileA, fileB, relation, parsed>>
sysVars   == <<lookups>>
matchVars == <<game_name, available_files, matched>>
thumbVars == <<tdir, timages, toptions, tpc, tfolder, tfile, tcache, tfetches,
               tresult, download_tasks, futures, lock, taken>>
vars      == <<consVars, parseVars, sysVars, matchVars, thumbVars>>

\* What the consolidation engine never touches.
otherVars == <<parseVars, sysVars, matchVars, thumbVars>>

(***************************************************************************)
(* Consolidation engine (src/src/consolidator.py, src/src/scanner.py)      *)
(***************************************************************************)

\* scanner.RomFile, as scan_rom_directory builds it.
RomFile(system_key, filename) ==
  [system_key |-> system_key,
   filename   |-> filename,
   game_info  |-> parse_game_filename(filename)]

\* ConsolidationResult()
NewResult ==
  [copied                 |-> 0,
   skipped_duplicates     |-> 0,
   skipped_existing       |-> 0,
   skipped_unknown_system |-> 0,
   skipped_filtered       |-> 0,
   errors                 |-> << >>,
   copied_files           |-> << >>,
   duplicate_files        |-> << >>,
   existing_files         |-> {}]

\* Consolidator._seen = {}
EmptySeen == [k \in {} |-> None]

RECURSIVE PathParts(_)
\* The components pathlib keeps of a relative path: split on "/", with empty
\* components and "." dropped.
PathParts(s) ==
  LET i    == IndexFrom(s, "/", 1)
      head == IF i = 0 THEN s ELSE SubSeq(s, 1, i - 1)
      rest == IF i = 0 THEN << >> ELSE PathParts(From(s, i + 1))
  IN  (IF head \in {"", "."} THEN << >> ELSE <<head>>) \o rest

\* Path.exists() for a path under output_dir: a file, or a directory that
\* holds one.
Exists(path) ==
  \E f \in output : Len(path) <= Len(f) /\ SubSeq(f, 1, Len(path)) = path

\* dest_path of _copy_rom, relative to output_dir.
DestPath(rom) ==
  PathParts(get_output_folder_name(rom.system_key))
    \o PathParts(rom.game_info.clean_filename)

\* FullKey as it was before the engine became region-aware: the title alone.
FullKey_title_only(rom) ==
  <<normalize_system_for_dedup(rom.system_key), similarity_key(rom.game_info)>>

\* The key both _is_duplicate and _mark_seen build.
FullKey(rom) ==
  <<normalize_system_for_dedup(rom.system_key), dedup_key(rom.game_info)>>

\* Consolidator._is_system_allowed
is_system_allowed(system_key) ==
  IF ~options.systems_filter.has THEN TRUE
  ELSE LET info == system_info(system_key)
       IN  IF ~info.has THEN FALSE
           ELSE Lower(info.val.key) \in options.systems_filter.val

\* A lookup that never finds the key.
is_duplicate_misses(rom) == None

\* Consolidator._is_duplicate: self._seen.get(full_key)
is_duplicate(rom) ==
  IF FullKey(rom) \in DOMAIN seen THEN Some(seen[FullKey(rom)]) ELSE None

\* `if original:` -- a RomFile is always true, a str is true when not empty.
OriginalTruthy(original) ==
  /\ original.has
  /\ original.val.tag = "PreexistingOutput" => original.val.label # ""

\* IsStr without the isinstance test: every entry taken for a RomFile.
IsStr_never(original) == FALSE

\* isinstance(original, str): the entry was stored by _mark_existing.
IsStr(original) == original.val.tag = "PreexistingOutput"

\* self._seen[full_key] = value
SeenWith(full_key, value) ==
  [k \in DOMAIN seen \cup {full_key} |-> IF k = full_key THEN value ELSE seen[k]]

\* mark_seen with the folder name as it is spelled in the source tree, not
\* normalized, in the key.
mark_seen_unnormalized(rom) ==
  SeenWith(<<rom.system_key, dedup_key(rom.game_info)>>,
           [tag |-> "CopiedThisRun", label |-> rom.filename])

\* Consolidator._mark_seen
mark_seen(rom) ==
  SeenWith(FullKey(rom), [tag |-> "CopiedThisRun", label |-> rom.filename])

\* The system key _scan_existing_output reads off a folder name.
FolderSystemKey(folder_name) ==
  IF Contains(folder_name, "-")
  THEN SubSeq(folder_name, 1, IndexFrom(folder_name, "-", 1) - 1)
  ELSE folder_name

\* The key _mark_existing builds for a file of the output directory.
ExistingKey(system_key, filename) ==
  <<normalize_system_for_dedup(system_key),
    dedup_key(parse_game_filename(filename))>>

\* The files _scan_existing_output visits: the files directly inside a
\* directory of output_dir, hidden ones left out.
ExistingFiles ==
  {f \in output : Len(f) = 2 /\ ~StartsWith(f[2], ".")}

\* The process has not returned yet.
NoExit == [has |-> FALSE, val |-> 0]
Exited(code) == [has |-> TRUE, val |-> code]

\* What one iteration of the for loop of consolidate() decided.
Event(rom, outcome, copy) ==
  [run     |-> run,
   pos     |-> pos,
   dry_run |-> options.dry_run,
   system  |-> normalize_system_for_dedup(rom.system_key),
   key     |-> dedup_key(rom.game_info),
   title   |-> similarity_key(rom.game_info),
   folder  |-> get_output_folder_name(rom.system_key),
   outcome |-> outcome,
   copy    |-> copy]

ConsInit ==
  /\ output \in InitialOutputs
  /\ roms \in { [i \in 1..Len(q) |-> RomFile(q[i].system_key, q[i].filename)] :
                  q \in SeqsUpTo(RomPool, MaxFiles) }
  /\ options \in OptionChoices
  /\ run = 1
  /\ pc = "start"
  /\ pos = 1
  /\ seen = EmptySeen
  /\ result = NewResult
  /\ events = << >>
  /\ failures = 0
  /\ exit_code = NoExit

\* A scan of the output directory that lists the existing files in the
\* result and leaves _seen empty.
ScanExistingOutput_skips_seeding ==
  /\ pc = "start"
  /\ result' = [result EXCEPT !.existing_files =
                  {<<FolderSystemKey(f[1]), f[2]>> : f \in ExistingFiles}]
  /\ pc' = "loop"
  /\ UNCHANGED <<output, roms, options, run, pos, seen, events, failures, exit_code>>
  /\ UNCHANGED otherVars

\* Consolidator._scan_existing_output, the first statement of consolidate().
\* iterdir() yields in no fixed order and _mark_existing overwrites, so the
\* label kept for a key is that of any one of the files that share it.
ScanExistingOutput ==
  /\ pc = "start"
  /\ LET KeyOf(f) == ExistingKey(FolderSystemKey(f[1]), f[2])
         keys     == {KeyOf(f) : f \in ExistingFiles}
     IN  /\ \E last \in [keys -> ExistingFiles] :
              /\ \A k \in keys : KeyOf(last[k]) = k
              /\ seen' = [k \in keys |->
                            [tag |-> "PreexistingOutput", label |-> last[k][2]]]
         /\ result' = [result EXCEPT !.existing_files =
                         {<<FolderSystemKey(f[1]), f[2]>> : f \in ExistingFiles}]
  /\ pc' = "loop"
  /\ UNCHANGED <<output, roms, options, run, pos, events, failures, exit_code>>
  /\ UNCHANGED otherVars

\* An iteration of the loop for a file the systems filter excludes.
ProcessFiltered ==
  /\ pc = "loop" /\ pos <= Len(roms)
  /\ LET rom == roms[pos]
     IN  /\ ~is_system_allowed(rom.system_key)
         /\ result' = [result EXCEPT !.skipped_filtered = @ + 1]
         /\ events' = Append(events, Event(rom, "Filtered", "none"))
  /\ pos' = pos + 1
  /\ UNCHANGED <<output, roms, options, run, pc, seen, failures, exit_code>>
  /\ UNCHANGED otherVars

\* An iteration for a file whose key _mark_existing stored.
ProcessExisting ==
  /\ pc = "loop" /\ pos <= Len(roms)
  /\ LET rom      == roms[pos]
         original == is_duplicate(rom)
     IN  /\ is_system_allowed(rom.system_key)
         /\ OriginalTruthy(original) /\ IsStr(original)
         /\ result' = [result EXCEPT !.skipped_existing = @ + 1]
         /\ events' = Append(events, Event(rom, "AlreadyExisting", "none"))
  /\ pos' = pos + 1
  /\ UNCHANGED <<output, roms, options, run, pc, seen, failures, exit_code>>
  /\ UNCHANGED otherVars

\* An iteration for a file whose key _mark_seen stored.
ProcessDuplicate ==
  /\ pc = "loop" /\ pos <= Len(roms)
  /\ LET rom      == roms[pos]
         original == is_duplicate(rom)
     IN  /\ is_system_allowed(rom.system_key)
         /\ OriginalTruthy(original) /\ ~IsStr(original)
         /\ result' = [result EXCEPT
                         !.skipped_duplicates = @ + 1,
                         !.duplicate_files =
                            Append(@, <<rom.system_key, rom.filename,
                                        original.val.label>>)]
         /\ events' = Append(events, Event(rom, "DuplicateOfInput", "none"))
  /\ pos' = pos + 1
  /\ UNCHANGED <<output, roms, options, run, pc, seen, failures, exit_code>>
  /\ UNCHANGED otherVars

\* _copy_rom past the copy: result.copied is incremented, then building the
\* tuple for copied_files reads rom.source_root, a field RomFile does not
\* have; the AttributeError lands in the except clause, which records it in
\* errors. copied_files is never appended to.
CountedThenRaised(rom) ==
  [result EXCEPT !.copied = @ + 1,
                 !.errors = Append(@, <<rom.system_key, rom.filename,
                                        "AttributeError">>)]

\* An iteration for a file whose key is not in _seen: _mark_seen, then
\* _copy_rom. Outside a dry run _copy_rom returns early when the destination
\* exists and overwrite is off; otherwise mkdir and copy2 either succeed or
\* raise, and an exception is recorded in errors.
ProcessNew ==
  /\ pc = "loop" /\ pos <= Len(roms)
  /\ LET rom == roms[pos]
     IN  /\ is_system_allowed(rom.system_key)
         /\ ~OriginalTruthy(is_duplicate(rom))
         /\ seen' = mark_seen(rom)
         /\ \/ /\ options.dry_run
               /\ result' = CountedThenRaised(rom)
               /\ events' = Append(events, Event(rom, "New", "copied"))
               /\ UNCHANGED <<output, failures>>
            \/ /\ ~options.dry_run
               /\ Exists(DestPath(rom)) /\ ~options.overwrite
               /\ events' = Append(events, Event(rom, "New", "conflict"))
               /\ UNCHANGED <<output, result, failures>>
            \/ /\ ~options.dry_run
               /\ ~(Exists(DestPath(rom)) /\ ~options.overwrite)
               /\ output' = output \cup {DestPath(rom)}
               /\ result' = CountedThenRaised(rom)
               /\ events' = Append(events, Event(rom, "New", "copied"))
               /\ UNCHANGED failures
            \/ /\ ~options.dry_run
               /\ ~(Exists(DestPath(rom)) /\ ~options.overwrite)
               /\ failures < MaxCopyErrors
               /\ failures' = failures + 1
               /\ result' = [result EXCEPT !.errors =
                               Append(@, <<rom.system_key, rom.filename,
                                           "OSError">>)]
               /\ events' = Append(events, Event(rom, "New", "error"))
               /\ UNCHANGED output
  /\ pos' = pos + 1
  /\ UNCHANGED <<roms, options, run, pc, exit_code>>
  /\ UNCHANGED otherVars

\* A command that always reports success.
ExitCode_always_zero(res) == 0

\* cmd_consolidate: return 0 if not result.errors else 1
ExitCode(res) == IF Len(res.errors) = 0 THEN 0 ELSE 1

\* The for loop of consolidate() is exhausted: return self.result, and
\* cmd_consolidate returns the exit code of the process.
Finish ==
  /\ pc = "loop" /\ pos > Len(roms)
  /\ pc' = "done"
  /\ exit_code' = Exited(ExitCode(result))
  /\ UNCHANGED <<output, roms, options, run, pos, seen, result, events, failures>>
  /\ UNCHANGED otherVars

\* The tool is invoked again on the same sources and output directory:
\* consolidate_roms builds a fresh Consolidator.
NewRun ==
  /\ pc = "done" /\ run < MaxRuns
  /\ run' = run + 1
  /\ options' \in OptionChoices
  /\ pc' = "start"
  /\ pos' = 1
  /\ seen' = EmptySeen
  /\ result' = NewResult
  /\ exit_code' = NoExit
  /\ UNCHANGED <<output, roms, events, failures>>
  /\ UNCHANGED otherVars

Next ==
  \/ ScanExistingOutput
  \/ ProcessFiltered
  \/ ProcessExisting
  \/ ProcessDuplicate
  \/ ProcessNew
  \/ Finish
  \/ NewRun

\* The other components at rest.
NoFile == [prefixes |-> << >>, title |-> "", groups |-> << >>, ext |-> ""]
NoRelation == [kind |-> "none", index |-> 0]
ParseIdle ==
  /\ fileA = NoFile
  /\ fileB = NoFile
  /\ relation = NoRelation
  /\ parsed = << >>
SysIdle == lookups = {}
MatchIdle ==
  /\ game_name = ""
  /\ available_files = << >>
  /\ matched = [done |-> FALSE, at |-> NoMatch]

\* ThumbnailResult()
NewThumbnailResult ==
  [downloaded         |-> 0,
   skipped_existing   |-> 0,
   skipped_not_found  |-> 0,
   skipped_no_mapping |-> 0,
   errors             |-> << >>,
   downloaded_files   |-> << >>]

\* ThumbnailCache(): no listing cached, no error recorded.
NewThumbnailCache == [cache |-> [k \in {} |-> << >>], errors |-> << >>]

\* ThumbnailOptions()
DefaultThumbnailOptions ==
  [dry_run |-> FALSE, thumbnail_type |-> "boxart", overwrite |-> FALSE,
   systems_filter |-> [has |-> FALSE, val |-> {}], max_workers |-> 5]

ThumbIdle ==
  /\ tdir = << >>
  /\ timages = {}
  /\ toptions = DefaultThumbnailOptions
  /\ tpc = "idle"
  /\ tfolder = 1
  /\ tfile = 1
  /\ tcache = NewThumbnailCache
  /\ tfetches = [k \in {} |-> 0]
  /\ tresult = NewThumbnailResult
  /\ download_tasks = << >>
  /\ futures = << >>
  /\ lock = "free"
  /\ taken = 0

Init == ConsInit /\ ParseIdle /\ SysIdle /\ MatchIdle /\ ThumbIdle
Spec == Init /\ [][Next]_vars

\* The consolidation engine at rest.
ConsIdle ==
  /\ output = {}
  /\ roms = << >>
  /\ options = [dry_run |-> FALSE, overwrite |-> FALSE,
                systems_filter |-> [has |-> FALSE, val |-> {}]]
  /\ run = 0
  /\ pc = "idle"
  /\ pos = 1
  /\ seen = EmptySeen
  /\ result = NewResult
  /\ events = << >>
  /\ failures = 0
  /\ exit_code = NoExit

(***************************************************************************)
(* Normaliser (src/src/normalizer.py): a file name, a name derived from it, *)
(* and the GameInfo of both                                                *)
(***************************************************************************)

\* The file name a record of parts stands for.
Name(f) == Join(f.prefixes, "") \o f.title \o Join(f.groups, "") \o f.ext

NormInit ==
  /\ fileA \in [prefixes : SeqsUpTo(PrefixPool, MaxPrefixes),
                title    : TitlePool,
                groups   : SeqsUpTo(GroupPool, MaxGroups),
                ext      : ExtPool]
  /\ fileB = fileA
  /\ relation = NoRelation
  /\ parsed = << >>

\* Another copy of the file carries a different 3-digit prefix: the prefix
\* parse_game_filename strips is replaced.
SubstitutePrefix ==
  /\ relation.kind = "none" /\ parsed = << >>
  /\ Len(fileA.prefixes) > 0
  /\ \E d \in PrefixPool \ {fileA.prefixes[1]} :
       fileB' = [fileA EXCEPT !.prefixes[1] = d]
  /\ relation' = [kind |-> "prefix_sub", index |-> 1]
  /\ UNCHANGED <<fileA, parsed>>
  /\ UNCHANGED <<consVars, sysVars, matchVars, thumbVars>>

\* Another copy of the file carries no prefix: the first one is removed.
RemovePrefix ==
  /\ relation.kind = "none" /\ parsed = << >>
  /\ Len(fileA.prefixes) > 0
  /\ fileB' = [fileA EXCEPT !.prefixes = Tail(@)]
  /\ relation' = [kind |-> "prefix_del", index |-> 1]
  /\ UNCHANGED <<fileA, parsed>>
  /\ UNCHANGED <<consVars, sysVars, matchVars, thumbVars>>

\* Another copy of the file is packed differently: what pathlib takes for
\* the extension (path.suffix) is replaced.
SubstituteExtension ==
  /\ relation.kind = "none" /\ parsed = << >>
  /\ fileA.ext # "" /\ Suffix(Name(fileA)) = fileA.ext
  /\ \E e \in RepackedExtPool \ {fileA.ext} :
       fileB' = [fileA EXCEPT !.ext = e]
  /\ relation' = [kind |-> "ext_sub", index |-> 0]
  /\ UNCHANGED <<fileA, parsed>>
  /\ UNCHANGED <<consVars, sysVars, matchVars, thumbVars>>

\* Another release of the title: one region group is replaced by another.
SubstituteRegion ==
  /\ relation.kind = "none" /\ parsed = << >>
  /\ \E i \in 1..Len(fileA.groups) :
       /\ fileA.groups[i] \in RegionGroupPool
       /\ \E r \in RegionGroupPool \ {fileA.groups[i]} :
            fileB' = [fileA EXCEPT !.groups[i] = r]
       /\ relation' = [kind |-> "region", index |-> i]
  /\ UNCHANGED <<fileA, parsed>>
  /\ UNCHANGED <<consVars, sysVars, matchVars, thumbVars>>

\* Another file carries the text of the first group after a vertical bar in
\* its title instead: "Game (USA).bin" and "Game|USA.bin".
MoveGroupIntoTitle ==
  /\ relation.kind = "none" /\ parsed = << >>
  /\ fileA.title # "" /\ Len(fileA.groups) > 0
  /\ fileB' = [fileA EXCEPT
                 !.title  = @ \o "|" \o SubSeq(fileA.groups[1], 3,
                                                Len(fileA.groups[1]) - 1),
                 !.groups = Tail(@)]
  /\ relation' = [kind |-> "bar", index |-> 1]
  /\ UNCHANGED <<fileA, parsed>>
  /\ UNCHANGED <<consVars, sysVars, matchVars, thumbVars>>

\* scan_rom_directory parses both names: parse_game_filename(file_path.name).
ParseFiles ==
  /\ parsed = << >>
  /\ parsed' = <<parse_game_filename(Name(fileA)), parse_game_filename(Name(fileB))>>
  /\ UNCHANGED <<fileA, fileB, relation>>
  /\ UNCHANGED <<consVars, sysVars, matchVars, thumbVars>>

\* Both files were copied under their clean_filename (_copy_rom) and a later
\* run finds them in the output directory: _mark_existing parses the stored
\* names, parse_game_filename(filename).
ParseStoredNames ==
  /\ Len(parsed) = 2
  /\ parsed' = parsed \o <<parse_game_filename(parsed[1].clean_filename),
                            parse_game_filename(parsed[2].clean_filename)>>
  /\ UNCHANGED <<fileA, fileB, relation>>
  /\ UNCHANGED <<consVars, sysVars, matchVars, thumbVars>>

NormNext ==
  \/ SubstitutePrefix
  \/ RemovePrefix
  \/ SubstituteExtension
  \/ SubstituteRegion
  \/ MoveGroupIntoTitle
  \/ ParseFiles
  \/ ParseStoredNames

InitNormalizer == NormInit /\ ConsIdle /\ SysIdle /\ MatchIdle /\ ThumbIdle
SpecNormalizer == InitNormalizer /\ [][NormNext]_vars

(***************************************************************************)
(* System registry (src/src/systems.py) and the dedup namespace            *)
(***************************************************************************)

\* A source folder name is looked up: the registry entry, the output folder
\* name, the dedup namespace and whether the system is known.
LookupSystem ==
  /\ Cardinality(lookups) < MaxLookups
  /\ \E k \in SourceSystemKeys :
       /\ \A r \in lookups : r.key # k
       /\ lookups' = lookups \cup
            { [key       |-> k,
               info      |-> get_system_info(k),
               folder    |-> get_output_folder_name(k),
               namespace |-> normalize_system_for_dedup(k),
               known     |-> is_known_system(k)] }
  /\ UNCHANGED <<consVars, parseVars, matchVars, thumbVars>>

SysNext ==
  \/ LookupSystem

InitSystems == SysIdle /\ ConsIdle /\ ParseIdle /\ MatchIdle /\ ThumbIdle
SpecSystems == InitSystems /\ [][SysNext]_vars

(***************************************************************************)
(* Thumbnail matcher (src/src/thumbnails.py)                               *)
(***************************************************************************)

MatchInit ==
  /\ game_name \in GameNamePool
  /\ available_files \in SeqsUpTo(RemoteNamePool, MaxAvailable)
  /\ matched = [done |-> FALSE, at |-> NoMatch]

\* match_thumbnail(game_name, available_files)
MatchThumbnail ==
  /\ ~matched.done
  /\ matched' = [done |-> TRUE, at |-> match_thumbnail_at(game_name, available_files)]
  /\ UNCHANGED <<game_name, available_files>>
  /\ UNCHANGED <<consVars, parseVars, sysVars, thumbVars>>

MatchNext ==
  \/ MatchThumbnail

InitMatcher == MatchInit /\ ConsIdle /\ ParseIdle /\ SysIdle /\ ThumbIdle
SpecMatcher == InitMatcher /\ [][MatchNext]_vars

(***************************************************************************)
(* Thumbnail downloader (src/src/thumbnails.py): ThumbnailCache and         *)
(* ThumbnailDownloader.download_for_directory                              *)
(***************************************************************************)

RECURSIVE Replace(_, _, _)
\* str.replace(old, new), for a non-empty old.
Replace(s, old, new) ==
  IF Len(s) = 0 THEN ""
  ELSE IF StartsWith(s, old)
       THEN new \o Replace(From(s, Len(old) + 1), old, new)
       ELSE Ch(s, 1) \o Replace(From(s, 2), old, new)

\* str.endswith
EndsWith(s, p) == Len(p) <= Len(s) /\ SubSeq(s, Len(s) - Len(p) + 1, Len(s)) = p

THUMBNAIL_TYPES ==
  [boxart |-> "Named_Boxarts", snap |-> "Named_Snaps", title |-> "Named_Titles"]

\* THUMBNAIL_TYPES.get(thumbnail_type, "Named_Boxarts")
libretro_type(thumbnail_type) ==
  IF thumbnail_type \in DOMAIN THUMBNAIL_TYPES
  THEN THUMBNAIL_TYPES[thumbnail_type]
  ELSE "Named_Boxarts"

\* A folder segment that is the requested type itself.
type_folder_as_requested(thumbnail_type) == thumbnail_type

\* type_folder of download_for_directory
type_folder(thumbnail_type) ==
  Lower(Replace(libretro_type(thumbnail_type), "Named_", ""))

\* cache_key of ThumbnailCache.get_available_files
cache_key(libretro_system, thumbnail_type) ==
  libretro_system \o "/" \o libretro_type(thumbnail_type)

\* The names of a tree listing that end in ".png", without the extension.
RECURSIVE PngStems(_)
PngStems(tree) ==
  IF Len(tree) = 0 THEN << >>
  ELSE (IF EndsWith(Head(tree), ".png")
        THEN <<SubSeq(Head(tree), 1, Len(Head(tree)) - 4)>>
        ELSE << >>) \o PngStems(Tail(tree))

\* The remote catalog names of the canonical systems of this model (the
\* table behind get_libretro_system_name, which systems.py does not hold).
LibretroNames ==
  [psp  |-> "Sony_-_PlayStation_Portable",
   gb   |-> "Nintendo_-_Game_Boy",
   snes |-> "Nintendo_-_Super_Nintendo_Entertainment_System"]

\* get_libretro_system_name: resolve the key, then look the canonical key up
\* in the remote-name table; None when the system has no remote catalog.
get_libretro_system_name(system_key) ==
  LET info == system_info(system_key)
  IN  IF info.has /\ Lower(info.val.key) \in DOMAIN LibretroNames
      THEN Some(LibretroNames[Lower(info.val.key)])
      ELSE None

\* The system key download_for_directory reads off a folder name.
folder_system_key(folder_name) ==
  IF Contains(folder_name, "-")
  THEN SubSeq(folder_name, 1, IndexFrom(folder_name, "-", 1) - 1)
  ELSE folder_name

\* ThumbnailDownloader._is_system_allowed
downloader_is_system_allowed(system_key) ==
  IF ~toptions.systems_filter.has THEN TRUE
  ELSE LET info == system_info(system_key)
           canonical_key == IF info.has THEN Lower(info.val.key)
                            ELSE Lower(system_key)
       IN  canonical_key \in toptions.systems_filter.val

\* ThumbnailDownloader._get_game_name_from_file
get_game_name_from_file(filename) ==
  Stem(parse_game_filename(filename).clean_filename)

\* urllib.parse.quote, for the characters the names of this model hold.
RECURSIVE Quote(_)
Quote(s) ==
  IF Len(s) = 0 THEN ""
  ELSE (CASE Ch(s, 1) = " " -> "%20"
          [] Ch(s, 1) = "(" -> "%28"
          [] Ch(s, 1) = ")" -> "%29"
          [] Ch(s, 1) = "'" -> "%27"
          [] OTHER -> Ch(s, 1)) \o Quote(From(s, 2))

LIBRETRO_BASE_URL == "https://raw.githubusercontent.com/libretro-thumbnails"

\* ThumbnailDownloader._build_download_url
build_download_url(libretro_system, thumbnail_type, filename) ==
  LIBRETRO_BASE_URL \o "/" \o Quote(libretro_system) \o "/master/"
    \o libretro_type(thumbnail_type) \o "/" \o Quote(filename) \o ".png"

\* dest_path of a ROM file: images_dir / f"{game_name}.png"
dest_path_of(folder_name, thumbnail_type, game) ==
  folder_name \o "/images/" \o type_folder(thumbnail_type) \o "/" \o game \o ".png"

\* The folders with the indices of S, in sorted order.
RECURSIVE FoldersOf(_)
FoldersOf(S) ==
  IF S = {} THEN << >>
  ELSE LET i == CHOOSE j \in S : \A k \in S : j <= k
       IN  <<FolderPool[i]>> \o FoldersOf(S \ {i})

\* The directories download_for_directory can be pointed at.
Directories ==
  { FoldersOf(S) : S \in { T \in SUBSET (1..Len(FolderPool)) :
                             Cardinality(T) <= MaxFolders } }

ThumbInit ==
  /\ tdir \in Directories
  /\ timages \in InitialImages
  /\ toptions \in ThumbnailOptionChoices
  /\ tpc = "folder"
  /\ tfolder = 1
  /\ tfile = 1
  /\ tcache = NewThumbnailCache
  /\ tfetches = [k \in {} |-> 0]
  /\ tresult = NewThumbnailResult
  /\ download_tasks = << >>
  /\ futures = << >>
  /\ lock = "free"
  /\ taken = 0

\* The current system folder, its system key and its remote catalog.
CurrentFolder  == tdir[tfolder]
CurrentKey     == folder_system_key(CurrentFolder.name)
CurrentCatalog == get_libretro_system_name(CurrentKey)
CurrentCacheKey == cache_key(CurrentCatalog.val, toptions.thumbnail_type)

\* The folder is one download_for_directory goes into: not hidden, not the
\* images folder, allowed by the filter and with a remote catalog.
FolderProcessed ==
  /\ ~StartsWith(CurrentFolder.name, ".")
  /\ CurrentFolder.name # "images"
  /\ downloader_is_system_allowed(CurrentKey)
  /\ Truthy(CurrentCatalog)

\* After get_available_files returned files for the current folder: on to
\* the files of the folder, or to the next folder when the list is empty.
AfterListing(files) ==
  IF Len(files) = 0
  THEN tpc' = "folder" /\ tfolder' = tfolder + 1 /\ tfile' = 1
  ELSE tpc' = "files" /\ tfolder' = tfolder /\ tfile' = 1

\* An iteration of the folder loop that ends in one of its first continue
\* statements. No counter is touched (skipped_no_mapping is never written).
SkipFolder ==
  /\ tpc = "folder" /\ tfolder <= Len(tdir)
  /\ ~FolderProcessed
  /\ tfolder' = tfolder + 1
  /\ UNCHANGED <<tdir, timages, toptions, tpc, tfile, tcache, tfetches, tresult,
                 download_tasks, futures, lock, taken>>
  /\ UNCHANGED <<consVars, parseVars, sysVars, matchVars>>

\* get_available_files finds the cache key in _cache.
ListingCached ==
  /\ tpc = "folder" /\ tfolder <= Len(tdir)
  /\ FolderProcessed
  /\ CurrentCacheKey \in DOMAIN tcache.cache
  /\ AfterListing(tcache.cache[CurrentCacheKey])
  /\ UNCHANGED <<tdir, timages, toptions, tcache, tfetches, tresult,
                 download_tasks, futures, lock, taken>>
  /\ UNCHANGED <<consVars, parseVars, sysVars, matchVars>>

\* _cache with a listing stored under a key.
CacheWith(key, files) ==
  [k \in DOMAIN tcache.cache \cup {key} |->
     IF k = key THEN files ELSE tcache.cache[k]]

\* What get_available_files does with the answer of the listing service: a
\* tree is stored and returned; HTTP 404 stores and returns the empty list;
\* any other failure is recorded in _errors, and nothing is stored.
CacheAfter(key, response) ==
  CASE response.kind = "ok" ->
         [tcache EXCEPT !.cache = CacheWith(key, PngStems(response.tree))]
    [] response.kind = "absent" ->
         [tcache EXCEPT !.cache = CacheWith(key, << >>)]
    [] response.kind = "failure" ->
         [tcache EXCEPT !.errors = Append(@, <<"fetch", key>>)]

\* get_available_files does not find the cache key and asks the listing
\* service.
FetchListing ==
  /\ tpc = "folder" /\ tfolder <= Len(tdir)
  /\ FolderProcessed
  /\ CurrentCacheKey \notin DOMAIN tcache.cache
  /\ tfetches' = [k \in DOMAIN tfetches \cup {CurrentCacheKey} |->
                    IF k = CurrentCacheKey
                    THEN (IF k \in DOMAIN tfetches THEN tfetches[k] ELSE 0) + 1
                    ELSE tfetches[k]]
  /\ \E response \in ListingResponses :
       /\ tcache' = CacheAfter(CurrentCacheKey, response)
       /\ AfterListing(IF response.kind = "ok" THEN PngStems(response.tree)
                       ELSE << >>)
  /\ UNCHANGED <<tdir, timages, toptions, tresult, download_tasks, futures,
                 lock, taken>>
  /\ UNCHANGED <<consVars, parseVars, sysVars, matchVars>>

\* The file the inner loop is at, its lookup name, its destination and the
\* listing it is matched against.
CurrentFile      == CurrentFolder.files[tfile]
CurrentGame      == get_game_name_from_file(CurrentFile)
CurrentDest      == dest_path_of(CurrentFolder.name, toptions.thumbnail_type, CurrentGame)
\* A listing guessed without asking the cache.
CurrentAvailable_speculative == <<"Game (USA)", "Zelda">>
CurrentAvailable == tcache.cache[CurrentCacheKey]
CurrentMatch     == match_thumbnail(CurrentGame, CurrentAvailable)

\* The file is one the inner loop looks at (the model's folders hold files
\* only, so is_file() holds): its name does not start with a dot.
FileProcessed == ~StartsWith(CurrentFile, ".")

InFiles == tpc = "files" /\ tfile <= Len(CurrentFolder.files)

\* An iteration of the inner loop that skips a hidden file.
SkipFile ==
  /\ InFiles /\ ~FileProcessed
  /\ tfile' = tfile + 1
  /\ UNCHANGED <<tdir, timages, toptions, tpc, tfolder, tcache, tfetches, tresult,
                 download_tasks, futures, lock, taken>>
  /\ UNCHANGED <<consVars, parseVars, sysVars, matchVars>>

\* The artwork of the file is on disk already and overwrite is off.
FileExists ==
  /\ InFiles /\ FileProcessed
  /\ CurrentDest \in timages /\ ~toptions.overwrite
  /\ tresult' = [tresult EXCEPT !.skipped_existing = @ + 1]
  /\ tfile' = tfile + 1
  /\ UNCHANGED <<tdir, timages, toptions, tpc, tfolder, tcache, tfetches,
                 download_tasks, futures, lock, taken>>
  /\ UNCHANGED <<consVars, parseVars, sysVars, matchVars>>

\* match_thumbnail finds nothing for the file.
FileNoMatch ==
  /\ InFiles /\ FileProcessed
  /\ ~(CurrentDest \in timages /\ ~toptions.overwrite)
  /\ ~Truthy(CurrentMatch)
  /\ tresult' = [tresult EXCEPT !.skipped_not_found = @ + 1]
  /\ tfile' = tfile + 1
  /\ UNCHANGED <<tdir, timages, toptions, tpc, tfolder, tcache, tfetches,
                 download_tasks, futures, lock, taken>>
  /\ UNCHANGED <<consVars, parseVars, sysVars, matchVars>>

\* A match in a dry run: counted as downloaded, nothing enqueued.
FileDryRun ==
  /\ InFiles /\ FileProcessed
  /\ ~(CurrentDest \in timages /\ ~toptions.overwrite)
  /\ Truthy(CurrentMatch)
  /\ toptions.dry_run
  /\ tresult' = [tresult EXCEPT
                   !.downloaded = @ + 1,
                   !.downloaded_files =
                      Append(@, <<CurrentKey, CurrentGame, CurrentDest>>)]
  /\ tfile' = tfile + 1
  /\ UNCHANGED <<tdir, timages, toptions, tpc, tfolder, tcache, tfetches,
                 download_tasks, futures, lock, taken>>
  /\ UNCHANGED <<consVars, parseVars, sysVars, matchVars>>

\* A match outside a dry run: the task is appended to download_tasks.
FileEnqueue ==
  /\ InFiles /\ FileProcessed
  /\ ~(CurrentDest \in timages /\ ~toptions.overwrite)
  /\ Truthy(CurrentMatch)
  /\ ~toptions.dry_run
  /\ download_tasks' =
       Append(download_tasks,
              [system_key |-> CurrentKey,
               game_name  |-> CurrentGame,
               url        |-> build_download_url(CurrentCatalog.val,
                                                 toptions.thumbnail_type,
                                                 CurrentMatch.val),
               dest_path  |-> CurrentDest,
               matched    |-> CurrentMatch.val])
  /\ tfile' = tfile + 1
  /\ UNCHANGED <<tdir, timages, toptions, tpc, tfolder, tcache, tfetches, tresult,
                 futures, lock, taken>>
  /\ UNCHANGED <<consVars, parseVars, sysVars, matchVars>>

\* The inner loop is exhausted: on to the next system folder.
NextFolder ==
  /\ tpc = "files" /\ tfile > Len(CurrentFolder.files)
  /\ tpc' = "folder" /\ tfolder' = tfolder + 1 /\ tfile' = 1
  /\ UNCHANGED <<tdir, timages, toptions, tcache, tfetches, tresult,
                 download_tasks, futures, lock, taken>>
  /\ UNCHANGED <<consVars, parseVars, sysVars, matchVars>>

\* A future as executor.submit creates it, and as _download_task ends it.
NewFuture == [state |-> "new", success |-> FALSE, error |-> None]
DoneFuture(success, error) ==
  [state |-> "finished", success |-> success, error |-> error]

\* The folder loop is exhausted. With tasks to run outside a dry run the
\* executor is created; otherwise the function goes to its last statements.
ScanDone ==
  /\ tpc = "folder" /\ tfolder > Len(tdir)
  /\ IF Len(download_tasks) > 0 /\ ~toptions.dry_run
     THEN /\ tpc' = "submit"
          /\ futures' = [i \in 1..Len(download_tasks) |-> NewFuture]
     ELSE /\ tpc' = "return"
          /\ UNCHANGED futures
  /\ UNCHANGED <<tdir, timages, toptions, tfolder, tfile, tcache, tfetches, tresult,
                 download_tasks, lock, taken>>
  /\ UNCHANGED <<consVars, parseVars, sysVars, matchVars>>

\* The futures in a given state.
FuturesIn(state) == {i \in 1..Len(futures) : futures[i].state = state}

\* executor.submit(self._download_task, task) for the next task of the dict
\* comprehension; after the last one the as_completed loop begins.
Submit ==
  /\ tpc = "submit"
  /\ LET i == CHOOSE j \in FuturesIn("new") : \A k \in FuturesIn("new") : j <= k
     IN  /\ futures' = [futures EXCEPT ![i].state = "queued"]
         /\ tpc' = IF FuturesIn("new") = {i} THEN "collect" ELSE "submit"
  /\ UNCHANGED <<tdir, timages, toptions, tfolder, tfile, tcache, tfetches, tresult,
                 download_tasks, lock, taken>>
  /\ UNCHANGED <<consVars, parseVars, sysVars, matchVars>>

\* A free worker thread of the pool takes the oldest queued task.
WorkerStart ==
  /\ FuturesIn("queued") # {}
  /\ Cardinality(FuturesIn("running")) < toptions.max_workers
  /\ LET i == CHOOSE j \in FuturesIn("queued") : \A k \in FuturesIn("queued") : j <= k
     IN  futures' = [futures EXCEPT ![i].state = "running"]
  /\ UNCHANGED <<tdir, timages, toptions, tpc, tfolder, tfile, tcache, tfetches,
                 tresult, download_tasks, lock, taken>>
  /\ UNCHANGED <<consVars, parseVars, sysVars, matchVars>>

\* What _download_file returns: (True, None) once the file is written, and
\* (False, "Error downloading {url}: {e}") for whatever was raised, HTTP 404
\* included.
download_file(url, outcome) ==
  IF outcome = "ok" THEN <<TRUE, None>>
  ELSE <<FALSE, Some(<<"Error downloading", url, outcome>>)>>

\* A worker thread that counts its own download in the result, outside the
\* lock.
WorkerFinish_writes_result ==
  \E i \in FuturesIn("running"), outcome \in DownloadOutcomes :
    LET task     == download_tasks[i]
        returned == download_file(task.url, outcome)
    IN  /\ futures' = [futures EXCEPT ![i] = DoneFuture(returned[1], returned[2])]
        /\ timages' = IF outcome \in {"ok", "partial"}
                      THEN timages \cup {task.dest_path}
                      ELSE timages
        /\ tresult' = IF outcome = "ok"
                      THEN [tresult EXCEPT !.downloaded = @ + 1]
                      ELSE [tresult EXCEPT !.skipped_not_found = @ + 1]
        /\ UNCHANGED <<tdir, toptions, tpc, tfolder, tfile, tcache, tfetches,
                       download_tasks, lock, taken>>
        /\ UNCHANGED <<consVars, parseVars, sysVars, matchVars>>

\* A worker thread runs _download_task to its end: _download_file, then the
\* dict it returns becomes the result of the future.
WorkerFinish ==
  \E i \in FuturesIn("running"), outcome \in DownloadOutcomes :
    LET task     == download_tasks[i]
        returned == download_file(task.url, outcome)
    IN  /\ futures' = [futures EXCEPT ![i] = DoneFuture(returned[1], returned[2])]
        /\ timages' = IF outcome \in {"ok", "partial"}
                      THEN timages \cup {task.dest_path}
                      ELSE timages
        /\ UNCHANGED <<tdir, toptions, tpc, tfolder, tfile, tcache, tfetches,
                       tresult, download_tasks, lock, taken>>
        /\ UNCHANGED <<consVars, parseVars, sysVars, matchVars>>

\* as_completed yields a finished future; the main thread reads its result
\* and enters the with self._lock block of its branch.
TakeCompleted ==
  /\ tpc = "collect" /\ taken = 0 /\ lock = "free"
  /\ \E i \in FuturesIn("finished") : taken' = i
  /\ lock' = "main"
  /\ UNCHANGED <<tdir, timages, toptions, tpc, tfolder, tfile, tcache, tfetches,
                 tresult, download_tasks, futures>>
  /\ UNCHANGED <<consVars, parseVars, sysVars, matchVars>>

\* A collecting loop that forgets the tasks that failed.
Recorded_failure_dropped(res, task, future) ==
  IF future.success
  THEN [res EXCEPT !.downloaded = @ + 1,
                   !.downloaded_files =
                      Append(@, <<task.system_key, task.game_name, task.dest_path>>)]
  ELSE res

\* The result after the with self._lock block for a finished task.
Recorded(res, task, future) ==
  IF future.success
  THEN [res EXCEPT !.downloaded = @ + 1,
                   !.downloaded_files =
                      Append(@, <<task.system_key, task.game_name, task.dest_path>>)]
  ELSE [res EXCEPT !.skipped_not_found = @ + 1,
                   !.errors = IF Truthy(future.error)
                              THEN Append(@, future.error.val) ELSE @]

\* The main thread updates the result inside the with self._lock block and
\* leaves the block.
RecordResult ==
  /\ tpc = "collect" /\ taken # 0 /\ lock = "main"
  /\ tresult' = Recorded(tresult, download_tasks[taken], futures[taken])
  /\ futures' = [futures EXCEPT ![taken].state = "collected"]
  /\ lock' = "free"
  /\ taken' = 0
  /\ UNCHANGED <<tdir, timages, toptions, tpc, tfolder, tfile, tcache, tfetches,
                 download_tasks>>
  /\ UNCHANGED <<consVars, parseVars, sysVars, matchVars>>

\* Every future has been handled: the executor shuts down.
PoolDone ==
  /\ tpc = "collect" /\ taken = 0
  /\ \A i \in 1..Len(futures) : futures[i].state = "collected"
  /\ tpc' = "return"
  /\ UNCHANGED <<tdir, timages, toptions, tfolder, tfile, tcache, tfetches, tresult,
                 download_tasks, futures, lock, taken>>
  /\ UNCHANGED <<consVars, parseVars, sysVars, matchVars>>

\* self.result.errors.extend(self._cache._errors); return self.result
ReturnResult ==
  /\ tpc = "return"
  /\ tresult' = [tresult EXCEPT !.errors = @ \o tcache.errors]
  /\ tpc' = "done"
  /\ UNCHANGED <<tdir, timages, toptions, tfolder, tfile, tcache, tfetches,
                 download_tasks, futures, lock, taken>>
  /\ UNCHANGED <<consVars, parseVars, sysVars, matchVars>>

ThumbNext ==
  \/ SkipFolder
  \/ ListingCached
  \/ FetchListing
  \/ SkipFile
  \/ FileExists
  \/ FileNoMatch
  \/ FileDryRun
  \/ FileEnqueue
  \/ NextFolder
  \/ ScanDone
  \/ Submit
  \/ WorkerStart
  \/ WorkerFinish
  \/ TakeCompleted
  \/ RecordResult
  \/ PoolDone
  \/ ReturnResult

InitThumbnails == ThumbInit /\ ConsIdle /\ ParseIdle /\ SysIdle /\ MatchIdle
SpecThumbnails == InitThumbnails /\ [][ThumbNext]_vars

(***************************************************************************)
(* Properties of the consolidation engine                                  *)
(***************************************************************************)

\* The events of the current run.
ThisRun == {i \in DOMAIN events : events[i].run = run}

\* The keys _scan_existing_output put into _seen in the current run, read
\* off the list of existing files the run keeps in its result.
SeededKeys == {ExistingKey(e[1], e[2]) : e \in result.existing_files}

EventKey(e) == <<e.system, e.key>>

\* C1: in one run at most one input file is accepted (classified New, marked
\* seen and handed to _copy_rom) per (canonical system, dedup key), and none
\* whose key was seeded from the files already in the output directory.
C1_AcceptedAtMostOnce ==
  /\ \A i, j \in DOMAIN events :
       ( /\ i < j
         /\ events[i].run = events[j].run
         /\ events[i].outcome = "New"
         /\ events[j].outcome = "New" )
       => EventKey(events[i]) # EventKey(events[j])
  /\ \A i \in ThisRun :
       events[i].outcome = "New" => EventKey(events[i]) \notin SeededKeys

\* A run rejected a second input file with the key of one it accepted, and a
\* run rejected an input file whose key was seeded.
C1_Witness ==
  /\ \E i, j \in DOMAIN events :
       /\ i < j
       /\ events[i].run = events[j].run
       /\ EventKey(events[i]) = EventKey(events[j])
       /\ events[i].outcome = "New"
       /\ events[j].outcome = "DuplicateOfInput"
  /\ \E i \in ThisRun :
       /\ events[i].outcome = "AlreadyExisting"
       /\ EventKey(events[i]) \in SeededKeys

\* The run numbered r copied for real and none of its copies raised.
CleanRun(r) ==
  \A i \in DOMAIN events :
    events[i].run = r => ~events[i].dry_run /\ events[i].copy # "error"

\* C2: after a run that copied for real without errors, the next run over the
\* same input files and the same output directory classifies every file it
\* does not filter out as AlreadyExisting.
C2_RerunAllExisting ==
  \A i, j \in DOMAIN events :
    ( /\ events[j].run = events[i].run + 1
      /\ events[j].pos = events[i].pos
      /\ CleanRun(events[i].run)
      /\ events[i].outcome # "Filtered"
      /\ events[j].outcome # "Filtered" )
    => events[j].outcome = "AlreadyExisting"

\* C3: two input files of one canonical system with the same similarity key
\* and different dedup keys are both classified New and both marked seen, in
\* either order, when neither key was seeded or accepted before.
C3_ReleasesIndependent ==
  \A i, j \in ThisRun :
    ( /\ i # j
      /\ events[i].system = events[j].system
      /\ events[i].title = events[j].title
      /\ events[i].key # events[j].key
      /\ \A k \in {i, j} :
           /\ events[k].outcome # "Filtered"
           /\ EventKey(events[k]) \notin SeededKeys
           /\ \A m \in ThisRun :
                m < k /\ events[m].outcome = "New"
                  => EventKey(events[m]) # EventKey(events[k]) )
    => \A k \in {i, j} :
         /\ events[k].outcome = "New"
         /\ EventKey(events[k]) \in DOMAIN seen
         /\ seen[EventKey(events[k])].tag = "CopiedThisRun"

\* Two releases of one title were both accepted in the current run.
C3_Witness ==
  \E i, j \in ThisRun :
    /\ i < j
    /\ events[i].system = events[j].system
    /\ events[i].title = events[j].title
    /\ events[i].key # events[j].key
    /\ events[i].outcome = "New"
    /\ events[j].outcome = "New"

\* C4: an iteration that is not filtered out classifies its file New exactly
\* when its key is absent from _seen, DuplicateOfInput exactly when the entry
\* was stored by _mark_seen and AlreadyExisting exactly when it was stored by
\* _mark_existing; skipped_duplicates grows by one for DuplicateOfInput only
\* and skipped_existing by one for AlreadyExisting only.
C4_CheckOutcome ==
  [][ pos' = pos + 1 =>
        LET e       == events'[Len(events')]
            k       == FullKey(roms[pos])
            present == k \in DOMAIN seen
        IN  /\ e.outcome = "Filtered" =>
                 /\ result'.skipped_duplicates = result.skipped_duplicates
                 /\ result'.skipped_existing = result.skipped_existing
            /\ e.outcome # "Filtered" =>
                 /\ e.outcome = "New" <=> ~present
                 /\ e.outcome = "DuplicateOfInput"
                      <=> present /\ seen[k].tag = "CopiedThisRun"
                 /\ e.outcome = "AlreadyExisting"
                      <=> present /\ seen[k].tag = "PreexistingOutput"
                 /\ result'.skipped_duplicates = result.skipped_duplicates
                      + (IF e.outcome = "DuplicateOfInput" THEN 1 ELSE 0)
                 /\ result'.skipped_existing = result.skipped_existing
                      + (IF e.outcome = "AlreadyExisting" THEN 1 ELSE 0)
    ]_vars

\* One behaviour saw all three outcomes, and the current run counted an
\* existing file.
C4_Witness ==
  /\ \E i \in DOMAIN events : events[i].outcome = "New"
  /\ \E i \in DOMAIN events : events[i].outcome = "DuplicateOfInput"
  /\ \E i \in ThisRun : events[i].outcome = "AlreadyExisting"
  /\ result.skipped_existing > 0

\* The files the skip counters of a result account for.
SkipTotal(res) ==
  res.skipped_duplicates + res.skipped_existing
    + res.skipped_unknown_system + res.skipped_filtered

\* C17: an iteration that ends in a copy conflict (the destination exists
\* and overwrite is off) skips the file, counts it in one of the skip
\* counters of the result and adds nothing to the error list.
C17_ConflictCounted ==
  [][ (pos' = pos + 1 /\ events'[Len(events')].copy = "conflict") =>
        /\ output' = output
        /\ SkipTotal(result') = SkipTotal(result) + 1
        /\ result'.errors = result.errors
    ]_vars

\* The error entries of the current result that name a file.
ErrorsNaming(rom) ==
  {k \in 1..Len(result.errors) :
     result.errors[k][1] = rom.system_key /\ result.errors[k][2] = rom.filename}

C19_UnknownSystemNeverAnError ==
  \A i \in ThisRun :
    LET rom == roms[events[i].pos]
    IN  ~is_known_system(rom.system_key) =>
          /\ result.skipped_unknown_system = 0
          /\ ErrorsNaming(rom) = {}
          /\ ~options.systems_filter.has =>
               /\ events[i].outcome # "Filtered"
               /\ events[i].folder = rom.system_key
          /\ options.systems_filter.has =>
               /\ events[i].outcome = "Filtered"
               /\ events[i].copy = "none"

(***************************************************************************)
(* Properties of the system registry                                      *)
(***************************************************************************)

\* C5: the dedup namespace of a system key is the canonical key that
\* prefixes its output folder name (letter case aside), and two source keys
\* fall into the same namespace exactly when they are written to the same
\* output folder.
C5_NamespaceIsFolderKey ==
  /\ \A r \in lookups : StartsWith(Lower(r.folder), r.namespace)
  /\ \A r1, r2 \in lookups :
       (r1.namespace = r2.namespace) <=> (r1.folder = r2.folder)

\* The lowercased keys of the registry.
CanonicalKeys == {Lower(SYSTEMS[i].key) : i \in 1..Len(SYSTEMS)}

\* C8: resolving a system key is idempotent: resolving the resolved key
\* gives it back, a key that is already canonical resolves to itself, and a
\* key the registry cannot resolve yields its lowercased form. The registry
\* entry found for a key is also the entry found for that entry's own key.
C8_ResolveIdempotent ==
  \A r \in lookups :
    /\ normalize_system_for_dedup(r.namespace) = r.namespace
    /\ r.key \in CanonicalKeys => r.namespace = r.key
    /\ ~r.info.has => r.namespace = Lower(r.key)
    /\ r.info.has => get_system_info(r.info.val.key) = r.info

\* An alias that resolves to another key, and a canonical key, looked up.
C8_Witness ==
  /\ \E r \in lookups : r.info.has /\ r.key \notin CanonicalKeys
                          /\ r.namespace # Lower(r.key)
  /\ \E r \in lookups : r.info.has /\ r.key \in CanonicalKeys

\* C9: the output folder name of a key the registry resolves is the
\* registry's key, a hyphen and the display name of that entry; of a key it
\* cannot resolve, the key itself, unchanged.
C9_FolderName ==
  \A r \in lookups :
    /\ r.known <=> r.info.has
    /\ r.info.has =>
         /\ \E i \in 1..Len(SYSTEMS) : SYSTEMS[i] = r.info.val
         /\ r.folder = r.info.val.key \o "-" \o r.info.val.name
    /\ ~r.info.has => r.folder = r.key

\* A resolved key and an unresolved key with an uppercase letter, looked up.
C9_Witness ==
  /\ \E r \in lookups : r.info.has /\ r.folder # r.key
  /\ \E r \in lookups : ~r.info.has /\ Lower(r.key) # r.key

(***************************************************************************)
(* Properties of the normaliser                                            *)
(***************************************************************************)

\* fileB was derived from fileA by the named relation, and both are parsed.
Derived(kind) == relation.kind = kind /\ parsed # << >>

PlainRemainder ==
  /\ Len(fileB.prefixes) = 0
  /\ ~(fileB.title = "" /\ Len(fileB.groups) = 0 /\ fileB.ext # "")

C7_RegionOnlyDiffers ==
  Derived("region") =>
    /\ similarity_key(parsed[1]) = similarity_key(parsed[2])
    /\ dedup_key(parsed[1]) # dedup_key(parsed[2])

\* The replaced group is the first region group of the name, and the two
\* regions differ by more than letter case.
FirstRegionReplaced ==
  /\ \A j \in 1..(relation.index - 1) : fileA.groups[j] \notin RegionGroupPool
  /\ Lower(fileA.groups[relation.index]) # Lower(fileB.groups[relation.index])

\* C7, amended: two names that share a title and differ only in their first
\* region group, by more than letter case, have the same similarityKey and
\* distinct dedupKeys.
C7_Amended ==
  (Derived("region") /\ FirstRegionReplaced) =>
    /\ similarity_key(parsed[1]) = similarity_key(parsed[2])
    /\ dedup_key(parsed[1]) # dedup_key(parsed[2])

\* Two releases of a title, (USA) and (Europe), both parsed.
C7_Witness ==
  /\ Derived("region") /\ FirstRegionReplaced
  /\ fileA.title # ""
  /\ Truthy(parsed[1].region) /\ Truthy(parsed[2].region)

(***************************************************************************)
(* Properties of the thumbnail matcher                                     *)
(***************************************************************************)

\* What makes a file a candidate of priority n for game_name.
Candidate(n, f) ==
  LET g  == game_name
      gb == extract_base_name(g)
      fb == extract_base_name(f)
  IN  CASE n = 1 -> Lower(f) = Lower(g)
        [] n = 2 -> Lower(fb) = Lower(gb)
        [] n = 3 -> normalize_for_matching(f) = normalize_for_matching(g)
        [] n = 4 -> normalize_for_matching(f) = normalize_for_matching(gb)
        [] n = 5 -> normalize_for_matching(fb) = normalize_for_matching(gb)
        [] n = 6 -> \/ StartsWith(normalize_for_matching(fb), normalize_for_matching(gb))
                    \/ StartsWith(normalize_for_matching(gb), normalize_for_matching(fb))
        [] n = 7 -> Lower(fb) = Lower(gb)

\* Priority n has a candidate in the listing.
TierHolds(n) == \E i \in 1..Len(available_files) : Candidate(n, available_files[i])

\* C10: match_thumbnail tries priorities 1 to 7 in order and returns a
\* candidate of the lowest priority that has one, or nothing when none has;
\* an exact case-insensitive match is preferred to a base-name match; and
\* "Super Mario Bros (Europe)" against the listing
\* ["Super Mario Bros (USA)"] matches at priority 2.
C10_TiersInOrder ==
  matched.done =>
    /\ matched.at.has <=> \E n \in 1..7 : TierHolds(n)
    /\ matched.at.has =>
         /\ matched.at.tier \in 1..7
         /\ TierHolds(matched.at.tier)
         /\ \A n \in 1..(matched.at.tier - 1) : ~TierHolds(n)
         /\ \E i \in 1..Len(available_files) : available_files[i] = matched.at.val
         /\ Candidate(matched.at.tier, matched.at.val)
         /\ match_thumbnail(game_name, available_files) = Some(matched.at.val)
    /\ ~matched.at.has => match_thumbnail(game_name, available_files) = None
    /\ TierHolds(1) => Lower(matched.at.val) = Lower(game_name)
    /\ (game_name = "Super Mario Bros (Europe)"
          /\ available_files = <<"Super Mario Bros (USA)">>)
         => matched.at = Matched(2, "Super Mario Bros (USA)")

\* The listing holds an exact match and, beside it, another release with the
\* same base name: the exact match is returned.
C10_Witness ==
  /\ matched.done /\ matched.at.tier = 1
  /\ \E i \in 1..Len(available_files) :
       available_files[i] # matched.at.val /\ Candidate(2, available_files[i])

(***************************************************************************)
(* Properties of the artwork downloader                                    *)
(***************************************************************************)

\* C11: in one run the listing of a (remote catalog, category) pair is
\* requested at most once, however many system folders resolve to the pair
\* and whatever the first request returned.
C11_ListingRequestedOnce ==
  \A key \in DOMAIN tfetches : tfetches[key] <= 1

\* The future the main thread is handling ended because the remote resource
\* is not there (HTTP 404).
TakenIsAbsent ==
  /\ taken # 0
  /\ ~futures[taken].success
  /\ Truthy(futures[taken].error)
  /\ futures[taken].error.val[3] = "absent"

\* C12: a download whose remote resource is not present ends as a non-error
\* "not found": it is counted as not found and adds nothing to the error
\* list.
C12_AbsentIsNotAnError ==
  [][(TakenIsAbsent /\ taken' = 0)
       => /\ tresult'.skipped_not_found = tresult.skipped_not_found + 1
          /\ tresult'.errors = tresult.errors]_vars

\* The number of files of the current folder that need a lookup: the visible
\* ones whose artwork is not on disk already.
RECURSIVE LookupsIn(_)
LookupsIn(files) ==
  IF files = << >> THEN 0
  ELSE LookupsIn(Tail(files))
       + (IF /\ ~StartsWith(Head(files), ".")
             /\ ~(/\ dest_path_of(CurrentFolder.name, toptions.thumbnail_type,
                                  get_game_name_from_file(Head(files))) \in timages
                  /\ ~toptions.overwrite)
          THEN 1 ELSE 0)

\* The number of entries of errs that report a failed request of key.
RECURSIVE FetchErrors(_, _)
FetchErrors(errs, key) ==
  IF errs = << >> THEN 0
  ELSE FetchErrors(Tail(errs), key) + (IF Head(errs) = <<"fetch", key>> THEN 1 ELSE 0)

\* The step leaves a system folder with a remote catalog because its listing
\* is empty, absent or could not be fetched.
ListingUnavailableStep ==
  /\ tpc = "folder" /\ tfolder <= Len(tdir)
  /\ FolderProcessed
  /\ tpc' = "folder" /\ tfolder' = tfolder + 1

\* C13: when the listing of a system is empty or its request fails, every
\* game lookup of the system is recorded as "not found", and a transport
\* failure of a listing appears once in the error list of the finished run.
C13_UnavailableListingIsNotFound ==
  /\ [][ListingUnavailableStep
          => tresult'.skipped_not_found
               = tresult.skipped_not_found + LookupsIn(CurrentFolder.files)]_vars
  /\ [](tpc = "done"
          => \A key \in DOMAIN tfetches : FetchErrors(tresult.errors, key) <= 1)

\* The number of entries of errs that report a failed download.
RECURSIVE DownloadErrors(_)
DownloadErrors(errs) ==
  IF errs = << >> THEN 0
  ELSE DownloadErrors(Tail(errs))
       + (IF Head(errs)[1] = "Error downloading" THEN 1 ELSE 0)

\* The futures that ended in a failure.
FailedFutures == {i \in FuturesIn("finished") \cup FuturesIn("collected") :
                    ~futures[i].success}

\* C14: outside a dry run, the tasks accounted for so far (downloaded, or
\* failed with its error recorded) are exactly the futures the collecting
\* loop has handled, a failure included; and once the pool is done every
\* enqueued task has been handled: downloaded + failed = enqueued.
C14_EveryTaskAccountedOnce ==
  ~toptions.dry_run =>
    /\ tresult.downloaded + DownloadErrors(tresult.errors)
         = Cardinality(FuturesIn("collected"))
    /\ tresult.downloaded = Len(tresult.downloaded_files)
    /\ tpc \in {"return", "done"} =>
         /\ FuturesIn("collected") = 1..Len(download_tasks)
         /\ tresult.downloaded + Cardinality(FailedFutures) = Len(download_tasks)
         /\ DownloadErrors(tresult.errors) = Cardinality(FailedFutures)

\* A finished run in which one task failed and a sibling was downloaded.
C14_Witness ==
  /\ tpc = "done"
  /\ Len(download_tasks) >= 2
  /\ FailedFutures # {}
  /\ tresult.downloaded >= 1
  /\ tresult.downloaded + Cardinality(FailedFutures) = Len(download_tasks)

\* A worker thread ends the task of some future in this step.
WorkerEnds ==
  \E i \in 1..Len(futures) :
    futures[i].state = "running" /\ futures'[i].state = "finished"

\* C15: while the pool is alive the result is written only by the main
\* thread inside a with self._lock block, which it holds alone; a step of a
\* worker thread leaves the result as it was; and every update accounts for
\* exactly one task, so none is lost.
C15_ResultUpdatedUnderLock ==
  /\ [][WorkerEnds => tresult' = tresult]_vars
  /\ [][(tpc \in {"submit", "collect"} /\ tresult' # tresult)
          => /\ lock = "main" /\ lock' = "free"
             /\ taken # 0 /\ futures[taken].state = "finished"
             /\ tresult' = Recorded(tresult, download_tasks[taken], futures[taken])
             /\ tresult'.downloaded + tresult'.skipped_not_found
                  = tresult.downloaded + tresult.skipped_not_found + 1]_vars
  /\ [](lock = "main" => tpc = "collect" /\ taken # 0)

\* The main thread holds the lock for a finished task while a worker is
\* still running another.
C15_Witness ==
  /\ lock = "main"
  /\ taken # 0
  /\ FuturesIn("running") # {}

\* The cache key of the (remote catalog, category) pair a task belongs to.
TaskCacheKey(task) ==
  cache_key(get_libretro_system_name(task.system_key).val, toptions.thumbnail_type)

\* C16: every enqueued task belongs to a pair whose listing is in the cache
\* already, its match is a name of that cached listing, and no task is handed
\* to the pool while the scanning loops that compute the matches still run.
C16_ListingBeforeTasksBeforeWorkers ==
  /\ \A i \in 1..Len(download_tasks) :
       /\ TaskCacheKey(download_tasks[i]) \in DOMAIN tcache.cache
       /\ \E j \in 1..Len(tcache.cache[TaskCacheKey(download_tasks[i])]) :
            tcache.cache[TaskCacheKey(download_tasks[i])][j] = download_tasks[i].matched
       /\ tfetches[TaskCacheKey(download_tasks[i])] >= 1
  /\ tpc \in {"folder", "files"} => futures = << >>
  /\ \A i \in 1..Len(futures) :
       futures[i].state # "new" => tpc \in {"submit", "collect", "return", "done"}

\* A worker runs a task while a second task, of another system folder, waits.
C16_Witness ==
  /\ Len(download_tasks) >= 2
  /\ FuturesIn("running") # {}
  /\ download_tasks[1].dest_path # download_tasks[2].dest_path
  /\ TaskCacheKey(download_tasks[1]) \in DOMAIN tcache.cache

\* The artwork files the workers have written: the destinations of the tasks
\* that ended with the file on disk.
WrittenArtwork ==
  {download_tasks[i].dest_path :
     i \in {j \in FuturesIn("finished") \cup FuturesIn("collected") :
              download_tasks[j].dest_path \in timages}}

\* The paths {systemFolder}/images/{segment}/{lookupName}.png over the system
\* folders of the directory and the lookup names of their files.
ArtworkPaths(segment) ==
  UNION {{tdir[f].name \o "/images/" \o segment \o "/"
            \o get_game_name_from_file(tdir[f].files[g]) \o ".png" :
            g \in 1..Len(tdir[f].files)} : f \in 1..Len(tdir)}

\* C20: every artwork file is written to
\* {systemFolder}/images/{category}/{lookupName}.png, where {category} is
\* exactly the requested category (boxart, snap or title).
C20_PathUsesRequestedCategory ==
  WrittenArtwork \subseteq ArtworkPaths(toptions.thumbnail_type)

\* The folder each category is stored under.
CategoryFolder == [boxart |-> "boxarts", snap |-> "snaps", title |-> "titles"]

\* C20 (amended): every artwork file is written to
\* {systemFolder}/images/{folder}/{lookupName}.png, where {folder} is
\* boxarts, snaps or titles for the requested category boxart, snap or
\* title; nothing else is added to the directory.
C20_Amended ==
  [][\A path \in timages' \ timages :
       path \in ArtworkPaths(CategoryFolder[toptions.thumbnail_type])]_vars

\* A finished run that wrote a screenshot.
C20_Witness ==
  /\ tpc = "done"
  /\ toptions.thumbnail_type = "snap"
  /\ WrittenArtwork # {}
  /\ tresult.downloaded >= 1

(***************************************************************************)
(* Further properties of the normaliser                                    *)
(***************************************************************************)

RECURSIVE DigitRun(_, _)
\* The number of digits name starts with, counted from position i.
DigitRun(name, i) ==
  IF i <= Len(name) /\ Ch(name, i) \in Digits THEN 1 + DigitRun(name, i + 1) ELSE 0

\* The name starts with exactly three digits and then white space.
HasSetPrefix(name) ==
  DigitRun(name, 1) = 3 /\ Len(name) >= 4 /\ Ch(name, 4) \in Whitespace

\* What C21 says of a file name and its GameInfo: something is stripped
\* exactly when the name starts with three digits and white space, and a
\* leading run of four or more digits stays in clean_filename and base_name.
PrefixRule(filename, g) ==
  /\ (g.clean_filename # filename) <=> HasSetPrefix(Stem(filename))
  /\ HasSetPrefix(Stem(filename)) =>
       /\ g.clean_filename =
            From(Stem(filename), SkipSpaces(Stem(filename), 4)) \o Suffix(filename)
  /\ DigitRun(Stem(filename), 1) >= 4 =>
       /\ g.clean_filename = filename
       /\ StartsWith(g.base_name,
                     SubSeq(filename, 1, DigitRun(Stem(filename), 1)))

\* C21: parse strips a leading prefix only when it is exactly three digits
\* followed by one or more spaces; a leading run of four or more digits is
\* never stripped and stays part of baseName and cleanFilename.
C21_OnlyThreeDigitPrefixStripped ==
  Len(parsed) = 2 =>
    /\ PrefixRule(Name(fileA), parsed[1])
    /\ PrefixRule(Name(fileB), parsed[2])
    /\ Name(fileA) = "1942.bin" => parsed[1].base_name = "1942"
    /\ Name(fileA) = "2048 Game.bin" => parsed[1].base_name = "2048 Game"

\* "001 2048 Game.bin" and its copy without the prefix, both parsed: the
\* prefix of the first is stripped, the four digits of the second stay.
C21_Witness ==
  /\ Derived("prefix_del") /\ Len(parsed) = 2
  /\ Name(fileA) = "001 2048 Game.bin"
  /\ parsed[1].clean_filename = "2048 Game.bin"
  /\ parsed[2].base_name = "2048 Game"

(***************************************************************************)
(* Further properties of the consolidation engine                          *)
(***************************************************************************)

\* The step stores an entry of _mark_existing in _seen.
SeedsEntry ==
  \E k \in DOMAIN seen' :
    /\ seen'[k].tag = "PreexistingOutput"
    /\ (k \notin DOMAIN seen \/ seen[k] # seen'[k])

\* C22: in every run the entries of all pre-existing output files are in the
\* seen-set before the first input file is checked: entries are seeded only
\* by the step that opens the run, input files are checked only after it,
\* and from then on every file the scan listed has its key in the seen-set.
C22_SeedingPrecedesChecks ==
  /\ [][SeedsEntry => (pc = "start" /\ pc' = "loop" /\ ThisRun = {})]_vars
  /\ [][events' # events => (pc = "loop" /\ pc' = "loop")]_vars
  /\ [](pc = "start" => ThisRun = {} /\ seen = EmptySeen)
  /\ [](pc \in {"loop", "done"} => SeededKeys \subseteq DOMAIN seen)

\* A run that found files in the output directory is checking its inputs.
C22_Witness ==
  /\ pc = "loop"
  /\ result.existing_files # {}
  /\ ThisRun # {}
  /\ \E k \in DOMAIN seen : seen[k].tag = "PreexistingOutput"

\* C23: once input evaluation has begun the seen-set only grows: a step of
\* the loop removes no key and leaves the tag and label of every entry that
\* is already present as they are.
C23_SeenOnlyGrows ==
  [][pc = "loop" =>
       \A k \in DOMAIN seen : k \in DOMAIN seen' /\ seen'[k] = seen[k]]_vars

\* A run that holds a seeded entry and an entry of a file it accepted.
C23_Witness ==
  /\ pc = "loop"
  /\ \E k \in DOMAIN seen : seen[k].tag = "PreexistingOutput"
  /\ \E k \in DOMAIN seen : seen[k].tag = "CopiedThisRun"
  /\ \E i \in ThisRun : events[i].outcome = "DuplicateOfInput"

\* The text between the parentheses of a group of GroupPool (" (USA)").
GroupContent(group) == SubSeq(group, 3, Len(group) - 1)

\* The positions of the groups of a file name that are region tokens.
RegionPositions(f) == {i \in 1..Len(f.groups) : f.groups[i] \in RegionGroupPool}

\* The first of them.
FirstRegionPosition(f) ==
  CHOOSE i \in RegionPositions(f) : \A j \in RegionPositions(f) : i <= j

\* What C24 says of one file name with several region groups: region is the
\* text of the first, and version is made of the other groups only.
FirstRegionOnly(f, g) ==
  Cardinality(RegionPositions(f)) >= 2 =>
    /\ g.region = Some(GroupContent(f.groups[FirstRegionPosition(f)]))
    /\ \A i \in RegionPositions(f) :
         ~(Truthy(g.version) /\ Contains(g.version.val, GroupContent(f.groups[i])))
    /\ (RegionPositions(f) = 1..Len(f.groups)) => g.version = None

\* C24: when a file name has several groups that are region tokens, region
\* is the first one and the later ones contribute to neither region nor
\* version nor dedupKey: two names that differ only in a region group after
\* the first have the same region, version and dedupKey.
C24_LaterRegionsIgnored ==
  Len(parsed) = 2 =>
    /\ FirstRegionOnly(fileA, parsed[1])
    /\ FirstRegionOnly(fileB, parsed[2])
    /\ (relation.kind = "region" /\ relation.index > FirstRegionPosition(fileA)) =>
         /\ parsed[1].region = parsed[2].region
         /\ parsed[1].version = parsed[2].version
         /\ dedup_key(parsed[1]) = dedup_key(parsed[2])

\* "Game (USA) (Europe).bin" and a copy whose second region group is
\* another, both parsed.
C24_Witness ==
  /\ Derived("region") /\ Len(parsed) = 2
  /\ relation.index = 2
  /\ fileA.title = "Game"
  /\ fileA.groups[1] = " (USA)"
  /\ Lower(fileA.groups[2]) # Lower(fileB.groups[2])
  /\ dedup_key(parsed[1]) = dedup_key(parsed[2])

(***************************************************************************)
(* Further properties of the system registry                               *)
(***************************************************************************)

\* The table entries whose key has three characters or more and occurs, in
\* lower case, in the lowercased input or in the lowercased input without
\* spaces, hyphens and underscores.
ContainedKeys(input) ==
  {i \in 1..Len(SYSTEMS) :
     /\ Len(SYSTEMS[i].key) >= 3
     /\ \/ Contains(Lower(input), Lower(SYSTEMS[i].key))
        \/ Contains(RemoveChars(Lower(input), {" ", "-", "_"}, 1),
                    Lower(SYSTEMS[i].key))}

\* C25: when a lookup falls through to the containment match, the entry
\* returned is one with a longest contained key; a key of one or two
\* characters is never returned by containment, and when no key of three
\* characters or more is contained the result is none.
C25_ContainmentPicksLongest ==
  \A r \in lookups :
    Lower(r.key) \notin CanonicalKeys =>
      /\ r.info.has <=> ContainedKeys(r.key) # {}
      /\ r.info.has =>
           /\ Len(r.info.val.key) >= 3
           /\ \E i \in ContainedKeys(r.key) :
                /\ SYSTEMS[i] = r.info.val
                /\ \A j \in ContainedKeys(r.key) :
                     Len(SYSTEMS[j].key) <= Len(SYSTEMS[i].key)

\* A name that holds a long key and a shorter one, and a name that holds a
\* two-character key only, looked up.
C25_Witness ==
  /\ \E r \in lookups :
       /\ r.key = "mame2003plus-extra"
       /\ r.info.has /\ r.info.val.key = "MAME2003PLUS"
       /\ Cardinality(ContainedKeys(r.key)) >= 2
  /\ \E r \in lookups : r.key = "dc_games" /\ ~r.info.has

(***************************************************************************)
(* Properties of the normaliser on stored names                            *)
(***************************************************************************)

\* The two GameInfo agree in base name, region, version and dedup key.
SameRelease(g, h) ==
  /\ g.base_name = h.base_name
  /\ g.region = h.region
  /\ g.version = h.version
  /\ dedup_key(g) = dedup_key(h)

\* C26: parsing is stable on its own output name: the GameInfo of a file's
\* clean_filename has the base name, region, version and dedup key of the
\* GameInfo of the file.
C26_ParseStableOnCleanName ==
  Len(parsed) = 4 =>
    /\ SameRelease(parsed[1], parsed[3])
    /\ SameRelease(parsed[2], parsed[4])

\* base_name, region and version of a GameInfo in lower case, absence kept.
LoweredOption(o) == IF o.has THEN Some(Lower(o.val)) ELSE None
ReleaseTriple(g) == <<Lower(g.base_name), LoweredOption(g.region), LoweredOption(g.version)>>

\* C27: dedupKey identifies a release: two records have the same dedupKey
\* exactly when their lowercased base name, region (or absence) and version
\* (or absence) are all equal.
C27_DedupKeyIdentifiesRelease ==
  Len(parsed) >= 2 =>
    (dedup_key(parsed[1]) = dedup_key(parsed[2]))
      <=> (ReleaseTriple(parsed[1]) = ReleaseTriple(parsed[2]))

(***************************************************************************)
(* Properties of the consolidation engine: duplicates and their originals  *)
(***************************************************************************)

\* C28: whenever an input file is classified DuplicateOfInput, the file it
\* duplicates was accepted earlier in the run and its copy succeeded (or was
\* counted, in a dry run): no key stays in the seen-set with the tag
\* CopiedThisRun after its copy failed or was skipped as a conflict.
C28_DuplicateOfCopiedFile ==
  \A j \in DOMAIN events :
    /\ events[j].outcome = "DuplicateOfInput" =>
         \E i \in DOMAIN events :
           /\ i < j
           /\ events[i].run = events[j].run
           /\ EventKey(events[i]) = EventKey(events[j])
           /\ events[i].outcome = "New"
           /\ events[i].copy = "copied"
    /\ (events[j].run = run /\ events[j].outcome = "New"
          /\ events[j].copy \in {"error", "conflict"})
         => ~(EventKey(events[j]) \in DOMAIN seen
                /\ seen[EventKey(events[j])].tag = "CopiedThisRun")

(***************************************************************************)
(* Further properties of the artwork downloader                            *)
(***************************************************************************)

\* C29: no two download tasks enqueued in one run have the same destination
\* path, so no two workers are ever writing the same artwork file at once.
C29_DistinctDestinations ==
  /\ \A i, j \in 1..Len(download_tasks) :
       i # j => download_tasks[i].dest_path # download_tasks[j].dest_path
  /\ \A i, j \in FuturesIn("running") :
       i # j => download_tasks[i].dest_path # download_tasks[j].dest_path

\* The alphanumeric base form the prefix test of priority 6 compares.
BaseForm(name) == normalize_for_matching(extract_base_name(name))

\* C30: match_thumbnail returns nothing or a member of the listing, and a
\* priority 6 (prefix containment) result shares a non-empty alphanumeric
\* base-form prefix with the lookup name: neither base form is empty.
C30_PrefixMatchIsNonEmpty ==
  (matched.done /\ matched.at.has) =>
    /\ \E i \in 1..Len(available_files) : available_files[i] = matched.at.val
    /\ matched.at.tier = 6 =>
         /\ BaseForm(game_name) # ""
         /\ BaseForm(matched.at.val) # ""

====
